---- MODULE Spec2Model ----
(***************************************************************************)
(* Document modality of UKV on top of a binary key-value engine.           *)
(*                                                                         *)
(* The model follows src/src/deprecated/modality_nlohmann_docs.cpp (the    *)
(* struct-argument API) and, where it differs, the earlier                 *)
(* src/src/logic_docs.cpp.  Values are byte strings (sequences of 0..255); *)
(* documents are parsed from and dumped to those bytes the way the         *)
(* nlohmann/json calls of the source do, for the subset of MessagePack and *)
(* JSON text described at each operator.                                   *)
(***************************************************************************)
EXTENDS Integers, Sequences, FiniteSets, TLC

VARIABLES
    impl,       \* which of the source files is built
    store,      \* the KV engine: DocumentId -> entry (presence, bytes)
    before,     \* history: the store when the last call began
    pc,         \* "idle" between calls, "done" when a call has returned
    call,       \* the arguments of the call that returned last
    kvLog,      \* the KV requests that call issued, in order
    tape,       \* the entries that call exposed through its output arguments
    error,      \* the call's *c_error: NoError or a message
    parses,     \* how many times that call ran parse_any
    exported,   \* what docs_gist and docs_gather hand out besides the tape
    written,    \* history: per DocumentId, the last whole-document write
    cursor,     \* where a docs_gather stands while pc = "gathering"
    threads,    \* the threads of a stress test: position, locals, transaction
    shared_keys, \* the array keys that the threads of insert_atomic_isolated share
    versions,   \* the KV engine: per key, the number of the commit that wrote it last
    committed,  \* history: the transactions that committed, in the order of commit
    operations  \* the operations a stress test logged, in the order of their times

\* the state of the stress tests
testvars == <<threads, shared_keys, versions, committed, operations>>

vars == <<impl, store, before, pc, call, kvLog, tape, error, parses, exported, written,
          cursor, testvars>>

(***************************************************************************)
(* Documents: json_t of nlohmann/json.  Every type has its own payload     *)
(* field, so that documents of different types compare unequal.            *)
(***************************************************************************)
EmptyMap == [k \in {} |-> 0]

Null == [t |-> "null"]
Discarded == [t |-> "discarded"]
Bool(b) == [t |-> "bool", b |-> b]
UInt(n) == [t |-> "uint", u |-> n]
SInt(n) == [t |-> "int", i |-> n]
Str(s) == [t |-> "str", s |-> s]
Bin(s) == [t |-> "bin", x |-> s]
\* a float of significand * 2^(exponent - 23), negated if negative
Float(negative, exponent, significand) ==
    [t |-> "float", negative |-> negative, exponent |-> exponent,
     significand |-> significand]
Arr(a) == [t |-> "arr", a |-> a]
Obj(m) == [t |-> "obj", m |-> m]

is_discarded(d) == d.t = "discarded"
is_object(d) == d.t = "obj"
is_null(d) == d.t = "null"

\* std::map::operator[]= : insert or overwrite one member
MapPut(m, k, v) == [n \in (DOMAIN m) \cup {k} |-> IF n = k THEN v ELSE m[n]]
\* std::map::erase(key)
MapErase(m, k) == [n \in (DOMAIN m) \ {k} |-> m[n]]

(***************************************************************************)
(* Byte strings.                                                           *)
(***************************************************************************)
Min(a, b) == IF a < b THEN a ELSE b

\* a local variable of the code: x is computed once and named in f
Bind(x, f(_)) == f(x)
Drop(s, n) == SubSeq(s, n + 1, Len(s))
Take(s, n) == SubSeq(s, 1, Min(n, Len(s)))

RECURSIVE BytesLess(_, _)
\* std::string::operator< : lexicographic order of member names
BytesLess(a, b) ==
    IF b = <<>> THEN FALSE
    ELSE IF a = <<>> THEN TRUE
    ELSE IF a[1] # b[1] THEN a[1] < b[1]
    ELSE BytesLess(Tail(a), Tail(b))

RECURSIVE SortedNames(_)
\* iteration order of std::map<std::string, json_t>
SortedNames(S) ==
    IF S = {} THEN <<>>
    ELSE LET m == CHOOSE n \in S : \A o \in S \ {n} : BytesLess(n, o)
         IN <<m>> \o SortedNames(S \ {m})

RECURSIVE Concat(_)
Concat(ss) == IF ss = <<>> THEN <<>> ELSE Head(ss) \o Concat(Tail(ss))

(***************************************************************************)
(* MessagePack, as json_t::from_msgpack reads it and                       *)
(* binary_writer::write_msgpack writes it.  Modelled lead bytes: positive  *)
(* fixint, fixmap, fixarray, fixstr, nil, false, true, bin 8, uint 8,      *)
(* int 8, negative fixint, float 32; 0xC1 is the byte MessagePack never    *)
(* uses.  The inputs of the model hold no other lead byte, and no float    *)
(* that is subnormal, infinite or not a number.                            *)
(***************************************************************************)
Failed == [doc |-> Discarded, rest |-> <<>>]

\* the four bytes of an IEEE 754 single, most significant first
MsgpackFloat32(b) ==
    LET biased == (b[1] % 128) * 2 + (b[2] \div 128)
        fraction == ((b[2] % 128) * 256 + b[3]) * 256 + b[4]
    IN IF biased = 0 THEN Float(b[1] >= 128, -126, fraction)
       ELSE Float(b[1] >= 128, biased - 127, 8388608 + fraction)

RECURSIVE MsgpackValue(_)
RECURSIVE MsgpackMembers(_, _, _)
RECURSIVE MsgpackElements(_, _, _)

MsgpackString(b) ==
    IF b = <<>> \/ b[1] < 160 \/ b[1] > 191 THEN Failed
    ELSE LET n == b[1] - 160
         IN IF Len(b) < 1 + n THEN Failed
            ELSE [doc |-> Str(SubSeq(b, 2, 1 + n)), rest |-> Drop(b, 1 + n)]

MsgpackMembers(b, n, acc) ==
    IF n = 0 THEN [doc |-> Obj(acc), rest |-> b]
    ELSE LET k == MsgpackString(b)
         IN IF is_discarded(k.doc) THEN Failed
            ELSE LET v == MsgpackValue(k.rest)
                 IN IF is_discarded(v.doc) THEN Failed
                    ELSE MsgpackMembers(v.rest, n - 1, MapPut(acc, k.doc.s, v.doc))

MsgpackElements(b, n, acc) ==
    IF n = 0 THEN [doc |-> Arr(acc), rest |-> b]
    ELSE LET v == MsgpackValue(b)
         IN IF is_discarded(v.doc) THEN Failed
            ELSE MsgpackElements(v.rest, n - 1, Append(acc, v.doc))

MsgpackValue(b) ==
    IF b = <<>> THEN Failed
    ELSE LET c == b[1]
             r == Tail(b)
         IN CASE c <= 127 -> [doc |-> UInt(c), rest |-> r]
              [] c >= 128 /\ c <= 143 -> MsgpackMembers(r, c - 128, EmptyMap)
              [] c >= 144 /\ c <= 159 -> MsgpackElements(r, c - 144, <<>>)
              [] c >= 160 /\ c <= 191 -> MsgpackString(b)
              [] c = 192 -> [doc |-> Null, rest |-> r]
              [] c = 194 -> [doc |-> Bool(FALSE), rest |-> r]
              [] c = 195 -> [doc |-> Bool(TRUE), rest |-> r]
              [] c = 196 ->
                    IF r = <<>> \/ Len(r) < 1 + r[1] THEN Failed
                    ELSE [doc |-> Bin(SubSeq(r, 2, 1 + r[1])), rest |-> Drop(r, 1 + r[1])]
              [] c = 202 ->
                    IF Len(r) < 4 THEN Failed
                    ELSE [doc |-> MsgpackFloat32(SubSeq(r, 1, 4)), rest |-> Drop(r, 4)]
              [] c = 204 ->
                    IF r = <<>> THEN Failed ELSE [doc |-> UInt(r[1]), rest |-> Tail(r)]
              [] c = 208 ->
                    IF r = <<>> THEN Failed
                    ELSE [doc |-> SInt(IF r[1] >= 128 THEN r[1] - 256 ELSE r[1]), rest |-> Tail(r)]
              [] c >= 224 -> [doc |-> SInt(c - 256), rest |-> r]
              [] OTHER -> Failed

\* json_t::from_msgpack(first, last, strict, allow_exceptions = false):
\* the first value; with strict, nothing may follow it
from_msgpack(b, strict) ==
    LET v == MsgpackValue(b)
    IN IF strict /\ v.rest # <<>> THEN Discarded ELSE v.doc

RECURSIVE write_msgpack(_)
\* binary_writer::write_msgpack: a discarded value writes nothing
write_msgpack(d) ==
    CASE d.t = "null" -> <<192>>
      [] d.t = "bool" -> IF d.b THEN <<195>> ELSE <<194>>
      [] d.t = "uint" -> IF d.u <= 127 THEN <<d.u>> ELSE <<204, d.u>>
      [] d.t = "int" ->
            IF d.i >= 0 THEN (IF d.i <= 127 THEN <<d.i>> ELSE <<204, d.i>>)
            ELSE IF d.i >= -32 THEN <<256 + d.i>> ELSE <<208, 256 + d.i>>
      [] d.t = "str" -> <<160 + Len(d.s)>> \o d.s
      [] d.t = "bin" -> <<196, Len(d.x)>> \o d.x
      [] d.t = "float" ->
            \* a double that a single holds exactly is written as float 32
            LET biased == IF d.significand < 8388608 THEN 0 ELSE d.exponent + 127
                fraction == d.significand % 8388608
            IN <<202, (IF d.negative THEN 128 ELSE 0) + (biased \div 2),
                 (biased % 2) * 128 + (fraction \div 65536),
                 (fraction \div 256) % 256, fraction % 256>>
      [] d.t = "arr" ->
            <<144 + Len(d.a)>> \o Concat([i \in 1..Len(d.a) |-> write_msgpack(d.a[i])])
      [] d.t = "obj" ->
            LET names == SortedNames(DOMAIN d.m)
            IN <<128 + Len(names)>> \o
               Concat([i \in 1..Len(names) |->
                          <<160 + Len(names[i])>> \o names[i] \o write_msgpack(d.m[names[i]])])
      [] OTHER -> <<>>

(***************************************************************************)
(* JSON text, as json_t::parse reads it and serializer::dump (no indent)   *)
(* writes it.  Modelled: objects, arrays, strings without escapes,         *)
(* integers, true, false, null, white space.  A NUL byte ends the input,   *)
(* as in the lexer of nlohmann/json.  The inputs of the model hold no      *)
(* escapes, fractions, exponents or comments.                              *)
(***************************************************************************)
IsWs(c) == c \in {32, 9, 10, 13}
IsDigit(c) == c >= 48 /\ c <= 57

RECURSIVE SkipWs(_)
SkipWs(b) == IF b # <<>> /\ IsWs(b[1]) THEN SkipWs(Tail(b)) ELSE b

StartsWith(b, p) == Len(b) >= Len(p) /\ SubSeq(b, 1, Len(p)) = p

RECURSIVE JsonString(_, _)
\* the characters up to the closing quote; b follows the opening quote
JsonString(b, acc) ==
    IF b = <<>> \/ b[1] < 32 \/ b[1] = 92 THEN Failed
    ELSE IF b[1] = 34 THEN [doc |-> Str(acc), rest |-> Tail(b)]
    ELSE JsonString(Tail(b), Append(acc, b[1]))

RECURSIVE JsonDigits(_, _)
JsonDigits(b, acc) ==
    IF b # <<>> /\ IsDigit(b[1]) THEN JsonDigits(Tail(b), 10 * acc + (b[1] - 48))
    ELSE [n |-> acc, rest |-> b]

\* an integer literal: non-negative ones are number_unsigned, negative ones
\* number_integer; a leading zero ends the literal
JsonNumber(b) ==
    LET neg == b[1] = 45
        ds == IF neg THEN Tail(b) ELSE b
    IN IF ds = <<>> \/ ~IsDigit(ds[1]) THEN Failed
       ELSE LET r == IF ds[1] = 48 THEN [n |-> 0, rest |-> Tail(ds)] ELSE JsonDigits(ds, 0)
            IN IF r.rest # <<>> /\ (IsDigit(r.rest[1]) \/ r.rest[1] \in {46, 69, 101}) THEN Failed
               ELSE [doc |-> IF neg THEN SInt(0 - r.n) ELSE UInt(r.n), rest |-> r.rest]

RECURSIVE JsonValue(_)
RECURSIVE JsonMembers(_, _)
RECURSIVE JsonElements(_, _)

\* b starts at a member name; acc holds the members read so far
JsonMembers(b, acc) ==
    IF b = <<>> \/ b[1] # 34 THEN Failed
    ELSE LET k == JsonString(Tail(b), <<>>)
             c == SkipWs(k.rest)
         IN IF is_discarded(k.doc) \/ c = <<>> \/ c[1] # 58 THEN Failed
            ELSE LET v == JsonValue(SkipWs(Tail(c)))
                     e == SkipWs(v.rest)
                     m == MapPut(acc, k.doc.s, v.doc)
                 IN IF is_discarded(v.doc) \/ e = <<>> THEN Failed
                    ELSE IF e[1] = 125 THEN [doc |-> Obj(m), rest |-> Tail(e)]
                    ELSE IF e[1] = 44 THEN JsonMembers(SkipWs(Tail(e)), m)
                    ELSE Failed

JsonElements(b, acc) ==
    LET v == JsonValue(b)
        e == SkipWs(v.rest)
    IN IF is_discarded(v.doc) \/ e = <<>> THEN Failed
       ELSE IF e[1] = 93 THEN [doc |-> Arr(Append(acc, v.doc)), rest |-> Tail(e)]
       ELSE IF e[1] = 44 THEN JsonElements(SkipWs(Tail(e)), Append(acc, v.doc))
       ELSE Failed

JsonValue(b) ==
    IF b = <<>> THEN Failed
    ELSE LET c == b[1]
             r == SkipWs(Tail(b))
         IN CASE c = 123 ->
                    IF r # <<>> /\ r[1] = 125 THEN [doc |-> Obj(EmptyMap), rest |-> Tail(r)]
                    ELSE JsonMembers(r, EmptyMap)
              [] c = 91 ->
                    IF r # <<>> /\ r[1] = 93 THEN [doc |-> Arr(<<>>), rest |-> Tail(r)]
                    ELSE JsonElements(r, <<>>)
              [] c = 34 -> JsonString(Tail(b), <<>>)
              [] c = 45 \/ IsDigit(c) -> JsonNumber(b)
              [] c = 110 ->
                    IF StartsWith(b, <<110, 117, 108, 108>>)
                    THEN [doc |-> Null, rest |-> Drop(b, 4)] ELSE Failed
              [] c = 116 ->
                    IF StartsWith(b, <<116, 114, 117, 101>>)
                    THEN [doc |-> Bool(TRUE), rest |-> Drop(b, 4)] ELSE Failed
              [] c = 102 ->
                    IF StartsWith(b, <<102, 97, 108, 115, 101>>)
                    THEN [doc |-> Bool(FALSE), rest |-> Drop(b, 5)] ELSE Failed
              [] OTHER -> Failed

\* json_t::parse(first, last, nullptr, allow_exceptions = false, ...): one
\* value, then the end of the input (or a NUL byte)
parse(b) ==
    LET v == JsonValue(SkipWs(b))
        e == SkipWs(v.rest)
    IN IF e = <<>> \/ e[1] = 0 THEN v.doc ELSE Discarded

RECURSIVE Digits(_)
Digits(n) == IF n < 10 THEN <<48 + n>> ELSE Digits(n \div 10) \o <<48 + (n % 10)>>

RECURSIVE Joined(_)
\* the dumps of the members or elements, separated by commas
Joined(ss) ==
    IF ss = <<>> THEN <<>>
    ELSE IF Len(ss) = 1 THEN ss[1]
    ELSE ss[1] \o <<44>> \o Joined(Tail(ss))

RECURSIVE dump(_)
\* serializer::dump(json, pretty_print = false, ...)
dump(d) ==
    CASE d.t = "null" -> <<110, 117, 108, 108>>
      [] d.t = "discarded" -> <<60, 100, 105, 115, 99, 97, 114, 100, 101, 100, 62>>
      [] d.t = "bool" -> IF d.b THEN <<116, 114, 117, 101>> ELSE <<102, 97, 108, 115, 101>>
      [] d.t = "uint" -> Digits(d.u)
      [] d.t = "int" -> IF d.i < 0 THEN <<45>> \o Digits(0 - d.i) ELSE Digits(d.i)
      [] d.t = "str" -> <<34>> \o d.s \o <<34>>
      [] d.t = "bin" ->
            <<123, 34, 98, 121, 116, 101, 115, 34, 58, 91>>
            \o Joined([i \in 1..Len(d.x) |-> Digits(d.x[i])])
            \o <<93, 44, 34, 115, 117, 98, 116, 121, 112, 101, 34, 58, 110, 117, 108, 108, 125>>
      [] d.t = "arr" -> <<91>> \o Joined([i \in 1..Len(d.a) |-> dump(d.a[i])]) \o <<93>>
      [] d.t = "obj" ->
            LET names == SortedNames(DOMAIN d.m)
            IN <<123>>
               \o Joined([i \in 1..Len(names) |->
                             <<34>> \o names[i] \o <<34, 58>> \o dump(d.m[names[i]])])
               \o <<125>>

(***************************************************************************)
(* Formats of ukv_format_t.  parse_any and dump_any of the modality file:   *)
(* the JSON formats never throw (allow_exceptions = false), MessagePack is *)
(* read without strict.  "field_default" is ukv_format_field_default_k, the *)
(* raw bytes of a leaf.  BSON, CBOR and UBJSON are not among the model's   *)
(* inputs.                                                                 *)
(***************************************************************************)
internal_format_k == "msgpack"
JsonFormats == {"json", "json_patch", "json_merge_patch"}

parse_any(bytes, format) ==
    IF format \in JsonFormats THEN parse(bytes)
    ELSE from_msgpack(bytes, FALSE)

RECURSIVE write_scalar(_, _)
\* export_to_value_t::write_scalar: the bytes of the scalar, lowest first
write_scalar(n, size) ==
    IF size = 0 THEN <<>> ELSE <<n % 256>> \o write_scalar(n \div 256, size - 1)

\* dump_any, case ukv_format_field_default_k: the bytes of a leaf as they are
dump_field_default(json) ==
    CASE json.t = "bin" -> json.x
      [] json.t = "str" -> json.s
      [] json.t = "bool" -> <<IF json.b THEN 1 ELSE 0>>
      [] json.t = "int" -> write_scalar(json.i, 8)
      [] json.t = "uint" -> write_scalar(json.u, 8)
      [] OTHER -> <<>>

dump_any(json, format) ==
    IF format \in JsonFormats THEN dump(json)
    ELSE IF format = "msgpack" THEN write_msgpack(json)
    ELSE dump_field_default(json)

\* the error dump_any logs: an object or an array has no binary form; ""
\* when it logs none
dump_error(json, format) ==
    IF format = "field_default" /\ json.t \in {"obj", "arr"}
    THEN "Can't export a nested dictionary in binary form!"
    ELSE ""

(***************************************************************************)
(* Field addressing.  A field selector is a byte string; NullField stands  *)
(* for a null pointer.  A selector starting with '/' is a JSON Pointer.    *)
(***************************************************************************)
NullField == <<-1>>

RECURSIVE Unescape(_)
\* json_pointer::unescape: "~1" is '/', "~0" is '~'
Unescape(t) ==
    IF t = <<>> THEN <<>>
    ELSE IF t[1] = 126 /\ Len(t) >= 2 /\ t[2] = 49 THEN <<47>> \o Unescape(Drop(t, 2))
    ELSE IF t[1] = 126 /\ Len(t) >= 2 /\ t[2] = 48 THEN <<126>> \o Unescape(Drop(t, 2))
    ELSE <<t[1]>> \o Unescape(Tail(t))

RECURSIVE Split(_, _, _)
\* json_pointer::split: the reference tokens between the slashes
Split(b, cur, acc) ==
    IF b = <<>> THEN Append(acc, Unescape(cur))
    ELSE IF b[1] = 47 THEN Split(Tail(b), <<>>, Append(acc, Unescape(cur)))
    ELSE Split(Tail(b), Append(cur, b[1]), acc)

\* json_ptr_t {field}, for a field that starts with '/'
json_ptr_t(field) == Split(Tail(field), <<>>, <<>>)

RECURSIVE ArrayIndex(_, _)
\* json_pointer::array_index: a token of digits; -1 for any other token
ArrayIndex(t, acc) ==
    IF t = <<>> THEN acc
    ELSE IF ~IsDigit(t[1]) THEN -1
    ELSE ArrayIndex(Tail(t), 10 * acc + (t[1] - 48))

Index(t) == IF t = <<>> \/ (Len(t) > 1 /\ t[1] = 48) THEN -1 ELSE ArrayIndex(t, 0)

RECURSIVE contains(_, _)
\* basic_json::contains(json_pointer)
contains(json, ptr) ==
    IF ptr = <<>> THEN TRUE
    ELSE IF json.t = "obj" THEN
        ptr[1] \in DOMAIN json.m /\ contains(json.m[ptr[1]], Tail(ptr))
    ELSE IF json.t = "arr" THEN
        LET i == Index(ptr[1])
        IN i >= 0 /\ i < Len(json.a) /\ contains(json.a[i + 1], Tail(ptr))
    ELSE FALSE

RECURSIVE at(_, _)
\* basic_json::at(json_pointer), on a pointer the document contains
at(json, ptr) ==
    IF ptr = <<>> THEN json
    ELSE IF json.t = "obj" THEN at(json.m[ptr[1]], Tail(ptr))
    ELSE at(json.a[Index(ptr[1]) + 1], Tail(ptr))

RECURSIVE assign(_, _, _)
\* a write through the reference at(ptr) returned: the document with the
\* addressed part replaced
assign(json, ptr, part) ==
    IF ptr = <<>> THEN part
    ELSE IF json.t = "obj" THEN
        Obj(MapPut(json.m, ptr[1], assign(json.m[ptr[1]], Tail(ptr), part)))
    ELSE
        LET i == Index(ptr[1]) + 1
        IN Arr([j \in 1..Len(json.a) |->
                   IF j = i THEN assign(json.a[j], Tail(ptr), part) ELSE json.a[j]])

\* lookup_field: the reference it returns, as the pointer of the addressed
\* part inside json, or default_json when the field is absent
lookup_field(json, field) ==
    IF field = NullField THEN [inside |-> TRUE, ptr |-> <<>>]
    ELSE IF field # <<>> /\ field[1] = 47 THEN
        LET field_ptr == json_ptr_t(field)
        IN IF contains(json, field_ptr) THEN [inside |-> TRUE, ptr |-> field_ptr]
           ELSE [inside |-> FALSE, ptr |-> <<>>]
    ELSE IF json.t = "obj" /\ field \in DOMAIN json.m
        THEN [inside |-> TRUE, ptr |-> <<field>>]
        ELSE [inside |-> FALSE, ptr |-> <<>>]

\* the value the reference of lookup_field refers to
deref(json, ref, default_json) == IF ref.inside THEN at(json, ref.ptr) ELSE default_json

RECURSIVE merge_patch(_, _)
RECURSIVE MergeMembers(_, _, _)
\* the loop of merge_patch over the members of the patch
MergeMembers(m, patch, names) ==
    IF names = <<>> THEN m
    ELSE LET k == names[1]
             v == patch.m[k]
         IN IF is_null(v) THEN MergeMembers(MapErase(m, k), patch, Tail(names))
            ELSE MergeMembers(
                    MapPut(m, k, merge_patch(IF k \in DOMAIN m THEN m[k] ELSE Null, v)),
                    patch, Tail(names))

\* basic_json::merge_patch (RFC 7396)
merge_patch(json, apply_patch) ==
    IF is_object(apply_patch)
    THEN Obj(MergeMembers(IF is_object(json) THEN json.m ELSE EmptyMap,
                          apply_patch, SortedNames(DOMAIN apply_patch.m)))
    ELSE apply_patch

(***************************************************************************)
(* The KV engine: batched read and write over DocumentIds <<collection,    *)
(* key>>.  An entry is a value with its presence bit.                      *)
(***************************************************************************)
Missing == [present |-> FALSE, bytes |-> <<>>]
Present(b) == [present |-> TRUE, bytes |-> b]

ReadRequest(keys) == [op |-> "read", keys |-> keys, vals |-> <<>>]
WriteRequest(keys, vals) == [op |-> "write", keys |-> keys, vals |-> vals]

\* kv_read: one entry per requested key, in the order of the request
ukv_read(st, keys) == [i \in 1..Len(keys) |-> st[keys[i]]]

RECURSIVE ukv_write(_, _, _)
\* kv_write: the entries are applied in the order of the request; an entry
\* without presence removes the key
ukv_write(st, keys, vals) ==
    IF keys = <<>> THEN st
    ELSE ukv_write([st EXCEPT ![keys[1]] = vals[1]], Tail(keys), Tail(vals))

\* joined_blobs_t: the bytes of a found entry; a missing entry has length 0
Blob(entry) == entry.bytes

(***************************************************************************)
(* The serializing tape.                                                   *)
(***************************************************************************)
\* growing_tape_t::push_back: an entry of no bytes is a logical null
TapeEntry(buffer) == [present |-> buffer # <<>>, bytes |-> buffer]

\* serializing_tape_ref_t::push_back: the dump of the document, with a
\* terminating NUL for the text formats
push_back(doc, format) ==
    TapeEntry(IF format \in JsonFormats THEN dump_any(doc, format) \o <<0>>
              ELSE dump_any(doc, format))

(***************************************************************************)
(* The batch read planner.                                                 *)
(***************************************************************************)
collection_key(id) == id
KeyOf(id) == id[2]

\* collection_key_t::operator< : lexicographic on (collection, key)
KeyLess(a, b) == a[1] < b[1] \/ (a[1] = b[1] /\ a[2] < b[2])

\* all_ascending(places.keys_begin, places.count): the keys alone
all_ascending(ids) == \A i \in 1..(Len(ids) - 1) : KeyOf(ids[i]) < KeyOf(ids[i + 1])

RECURSIVE SortedIds(_)
SortedIds(S) ==
    IF S = {} THEN <<>>
    ELSE LET m == CHOOSE a \in S : \A b \in S \ {a} : KeyLess(a, b)
         IN <<m>> \o SortedIds(S \ {m})

\* a sort that keeps every occurrence of an id
sort_keeping_duplicates(ids) ==
    Bind(SortedIds({collection_key(ids[i]) : i \in 1..Len(ids)}), LAMBDA sorted :
         Concat([j \in 1..Len(sorted) |->
                    [c \in 1..Cardinality({i \in 1..Len(ids) : ids[i] = sorted[j]}) |->
                        sorted[j]]]))

\* sort_and_deduplicate: the distinct ids in ascending order
sort_and_deduplicate(ids) == SortedIds({collection_key(ids[i]) : i \in 1..Len(ids)})

\* offset_in_sorted: the lower bound of the id in the sorted unique ids
offset_in_sorted(unique_places, id) ==
    Cardinality({j \in 1..Len(unique_places) : KeyLess(unique_places[j], id)}) + 1

\* a planner that reads the batch as it came, duplicates included
read_docs_in_input_order(ids) == [keys |-> ids, shared |-> FALSE]

\* read_docs: which ids the KV read asks for (the read_order it returns), and
\* whether the documents are shared by the tasks of the same id
read_docs(ids) ==
    IF all_ascending(ids) THEN [keys |-> ids, shared |-> FALSE]
    ELSE LET unique_places == sort_and_deduplicate(ids)
         IN IF Len(unique_places) = Len(ids) THEN [keys |-> ids, shared |-> FALSE]
            ELSE [keys |-> unique_places, shared |-> TRUE]

\* a join of documents and tasks by position instead of by id
parsed_idx_by_position(plan, ids, task_idx) ==
    IF plan.shared THEN Min(task_idx, Len(plan.keys)) ELSE task_idx

\* the index of the parsed document the callback of task task_idx receives
parsed_idx(plan, ids, task_idx) ==
    IF plan.shared THEN offset_in_sorted(plan.keys, collection_key(ids[task_idx]))
    ELSE task_idx

\* how often read_docs and read_unique_docs run parse_any: once per entry read
StoredParses(plan) == Len(plan.keys)

\* the documents parsed from the entries the KV read found
ParsedDocs(found) == [j \in 1..Len(found) |-> parse_any(Blob(found[j]), internal_format_k)]

FieldOf(fields, i) == IF fields = <<>> THEN NullField ELSE fields[i]

(***************************************************************************)
(* Results of a handler: the store it leaves, the KV requests it issued,   *)
(* its tape, its error and its count of parse_any runs.                    *)
(***************************************************************************)
NoExport == <<>>

ResultWith(st, log, tp, err, n, out) ==
    [store |-> st, kvLog |-> log, tape |-> tp, error |-> err, parses |-> n,
     exported |-> out]

Result(st, log, tp, err, n) == ResultWith(st, log, tp, err, n, NoExport)

NoError == ""

(***************************************************************************)
(* flatten and unflatten of nlohmann/json.                                 *)
(***************************************************************************)
RECURSIVE Escape(_)
\* json_pointer::escape: '~' is "~0", '/' is "~1"
Escape(t) ==
    IF t = <<>> THEN <<>>
    ELSE IF t[1] = 126 THEN <<126, 48>> \o Escape(Tail(t))
    ELSE IF t[1] = 47 THEN <<126, 49>> \o Escape(Tail(t))
    ELSE <<t[1]>> \o Escape(Tail(t))

RECURSIVE FlattenInto(_, _, _)
RECURSIVE FlattenMembers(_, _, _, _)
RECURSIVE FlattenElements(_, _, _, _)

FlattenMembers(ref, json, names, result) ==
    IF names = <<>> THEN result
    ELSE FlattenMembers(ref, json, Tail(names),
            FlattenInto(ref \o <<47>> \o Escape(names[1]), json.m[names[1]], result))

FlattenElements(ref, json, i, result) ==
    IF i > Len(json.a) THEN result
    ELSE FlattenElements(ref, json, i + 1,
            FlattenInto(ref \o <<47>> \o Digits(i - 1), json.a[i], result))

\* json_pointer::flatten: an empty array or object flattens to null
FlattenInto(ref, json, result) ==
    IF json.t = "arr" THEN
        IF json.a = <<>> THEN MapPut(result, ref, Null)
        ELSE FlattenElements(ref, json, 1, result)
    ELSE IF json.t = "obj" THEN
        IF DOMAIN json.m = {} THEN MapPut(result, ref, Null)
        ELSE FlattenMembers(ref, json, SortedNames(DOMAIN json.m), result)
    ELSE MapPut(result, ref, json)

\* a flatten that stops at the members of the root
flatten_shallow(json) ==
    IF json.t = "obj" /\ DOMAIN json.m # {}
    THEN Obj([path \in {<<47>> \o Escape(name) : name \in DOMAIN json.m} |-> Null])
    ELSE Obj(FlattenInto(<<>>, json, EmptyMap))

flatten(json) == Obj(FlattenInto(<<>>, json, EmptyMap))

Thrown == [t |-> "exception"]
is_primitive(json) == json.t \notin {"arr", "obj"}

RECURSIVE GetAndCreate(_, _, _)
\* json_pointer::get_and_create followed by the assignment, for the object
\* tokens of the model's inputs
GetAndCreate(json, ptr, value) ==
    IF ptr = <<>> THEN value
    ELSE LET m == IF is_object(json) THEN json.m ELSE EmptyMap
         IN Obj(MapPut(m, ptr[1],
                       GetAndCreate(IF ptr[1] \in DOMAIN m THEN m[ptr[1]] ELSE Null,
                                    Tail(ptr), value)))

RECURSIVE UnflattenMembers(_, _, _)
UnflattenMembers(flat, names, result) ==
    IF names = <<>> THEN result
    ELSE IF ~is_primitive(flat.m[names[1]]) THEN Thrown
    ELSE IF names[1] # <<>> /\ names[1][1] # 47 THEN Thrown
    ELSE UnflattenMembers(flat, Tail(names),
            GetAndCreate(result,
                         IF names[1] = <<>> THEN <<>> ELSE json_ptr_t(names[1]),
                         flat.m[names[1]]))

\* json_pointer::unflatten: throws unless the value is an object of
\* primitives whose names are JSON Pointers
unflatten(flat) ==
    IF ~is_object(flat) THEN Thrown
    ELSE UnflattenMembers(flat, SortedNames(DOMAIN flat.m), Null)

\* basic_json::emplace on an object: inserts unless the name is present
emplace(json, name, value) ==
    IF name \in DOMAIN json.m THEN json ELSE Obj(MapPut(json.m, name, value))

(***************************************************************************)
(* basic_json::patch (RFC 6902).  An exception of the library is the value *)
(* Thrown.  JSON_ASSERT is assert(): with asserts the process aborts where *)
(* the library asserts, without them the statement does nothing.           *)
(***************************************************************************)
OpName == <<111, 112>>                  \* "op"
PathName == <<112, 97, 116, 104>>       \* "path"
ValueName == <<118, 97, 108, 117, 101>> \* "value"
FromName == <<102, 114, 111, 109>>      \* "from"

\* get_value of patch: the member of the operation; parse_error 105 when it
\* is missing or is no string where a string is due
get_value(val, member, string_type) ==
    IF member \notin DOMAIN val.m THEN Thrown
    ELSE IF string_type /\ val.m[member].t # "str" THEN Thrown
    ELSE val.m[member]

\* json_pointer(path): "" or a pointer that starts with '/'
patch_pointer(path) ==
    IF path = Thrown THEN Thrown
    ELSE IF path.s = <<>> THEN [ptr |-> <<>>]
    ELSE IF path.s[1] # 47 THEN Thrown
    ELSE [ptr |-> json_ptr_t(path.s)]

\* basic_json::at(json_pointer): out_of_range when the pointer is unresolved
checked_at(json, ptr) == IF contains(json, ptr) THEN at(json, ptr) ELSE Thrown

\* the array with val inserted before position idx (from 0)
InsertAt(a, idx, val) == SubSeq(a, 1, idx) \o <<val>> \o SubSeq(a, idx + 1, Len(a))

\* operation_add of patch
operation_add(result, ptr, val, asserts) ==
    IF ptr = <<>> THEN val
    ELSE IF Len(ptr) > 1 /\ ~contains(result, <<ptr[1]>>) THEN Thrown
    ELSE Bind(SubSeq(ptr, 1, Len(ptr) - 1), LAMBDA parent_ptr :
         Bind(ptr[Len(ptr)], LAMBDA last_path :
         Bind(checked_at(result, parent_ptr), LAMBDA parent :
            CASE parent = Thrown -> Thrown
              [] parent.t = "null" ->
                    assign(result, parent_ptr, Obj(MapPut(EmptyMap, last_path, val)))
              [] parent.t = "obj" ->
                    assign(result, parent_ptr, Obj(MapPut(parent.m, last_path, val)))
              [] parent.t = "arr" ->
                    IF last_path = <<45>>
                    THEN assign(result, parent_ptr, Arr(Append(parent.a, val)))
                    ELSE IF Index(last_path) < 0 \/ Index(last_path) > Len(parent.a)
                    THEN Thrown
                    ELSE assign(result, parent_ptr,
                                Arr(InsertAt(parent.a, Index(last_path), val)))
              [] OTHER -> IF asserts THEN Thrown ELSE result)))

\* operation_remove of patch
operation_remove(result, ptr) ==
    IF ptr = <<>> THEN Thrown
    ELSE Bind(SubSeq(ptr, 1, Len(ptr) - 1), LAMBDA parent_ptr :
         Bind(ptr[Len(ptr)], LAMBDA last_path :
         Bind(checked_at(result, parent_ptr), LAMBDA parent :
            CASE parent = Thrown -> Thrown
              [] parent.t = "obj" ->
                    IF last_path \in DOMAIN parent.m
                    THEN assign(result, parent_ptr, Obj(MapErase(parent.m, last_path)))
                    ELSE Thrown
              [] parent.t = "arr" ->
                    IF Index(last_path) < 0 \/ Index(last_path) >= Len(parent.a)
                    THEN Thrown
                    ELSE assign(result, parent_ptr,
                                Arr(SubSeq(parent.a, 1, Index(last_path))
                                    \o SubSeq(parent.a, Index(last_path) + 2,
                                              Len(parent.a))))
              [] OTHER -> result)))

\* one operation of the patch applied to result
patch_operation(result, val, asserts) ==
    IF ~is_object(val) THEN Thrown
    ELSE Bind(get_value(val, OpName, TRUE), LAMBDA op :
         Bind(patch_pointer(get_value(val, PathName, TRUE)), LAMBDA path :
            IF op = Thrown \/ path = Thrown THEN Thrown
            ELSE CASE op.s = <<97, 100, 100>> ->                     \* "add"
                        Bind(get_value(val, ValueName, FALSE), LAMBDA v :
                            IF v = Thrown THEN Thrown
                            ELSE operation_add(result, path.ptr, v, asserts))
                   [] op.s = <<114, 101, 109, 111, 118, 101>> ->      \* "remove"
                        operation_remove(result, path.ptr)
                   [] op.s = <<114, 101, 112, 108, 97, 99, 101>> ->   \* "replace"
                        Bind(get_value(val, ValueName, FALSE), LAMBDA v :
                            IF v = Thrown \/ ~contains(result, path.ptr) THEN Thrown
                            ELSE assign(result, path.ptr, v))
                   [] op.s = <<109, 111, 118, 101>> ->                \* "move"
                        Bind(patch_pointer(get_value(val, FromName, TRUE)), LAMBDA from :
                            IF from = Thrown THEN Thrown
                            ELSE Bind(checked_at(result, from.ptr), LAMBDA v :
                                 Bind(IF v = Thrown THEN Thrown
                                      ELSE operation_remove(result, from.ptr),
                                      LAMBDA removed :
                                        IF removed = Thrown THEN Thrown
                                        ELSE operation_add(removed, path.ptr, v, asserts))))
                   [] op.s = <<99, 111, 112, 121>> ->                 \* "copy"
                        Bind(patch_pointer(get_value(val, FromName, TRUE)), LAMBDA from :
                            IF from = Thrown THEN Thrown
                            ELSE Bind(checked_at(result, from.ptr), LAMBDA v :
                                    IF v = Thrown THEN Thrown
                                    ELSE operation_add(result, path.ptr, v, asserts)))
                   [] op.s = <<116, 101, 115, 116>> ->                \* "test"
                        Bind(get_value(val, ValueName, FALSE), LAMBDA v :
                            IF v = Thrown \/ checked_at(result, path.ptr) # v THEN Thrown
                            ELSE result)
                   [] OTHER -> Thrown))

RECURSIVE patch_operations(_, _, _, _)
patch_operations(result, json_patch, i, asserts) ==
    IF result = Thrown \/ i > Len(json_patch.a) THEN result
    ELSE patch_operations(patch_operation(result, json_patch.a[i], asserts),
                          json_patch, i + 1, asserts)

\* basic_json::patch: parse_error 104 unless the patch is an array
patch(json, json_patch, asserts) ==
    IF json_patch.t # "arr" THEN Thrown
    ELSE patch_operations(json, json_patch, 1, asserts)

(***************************************************************************)
(* replace_docs: whole documents in the caller's format.                   *)
(***************************************************************************)
\* the first entry whose payload parse_any could not parse, or 0
FirstDiscarded(contents, format) ==
    LET bad == {i \in 1..Len(contents) : is_discarded(parse_any(contents[i], format))}
    IN IF bad = {} THEN 0 ELSE CHOOSE i \in bad : \A j \in bad : i <= j

\* a replace_docs that writes the entries it parsed before the failing one
replace_docs_writing_prefix(st, ids, contents, format) ==
    Bind(FirstDiscarded(contents, format), LAMBDA bad :
    Bind([i \in 1..(IF bad = 0 THEN Len(ids) ELSE bad - 1) |->
             push_back(parse_any(contents[i], format), internal_format_k)],
         LAMBDA growing_tape :
            Result(ukv_write(st, SubSeq(ids, 1, Len(growing_tape)), growing_tape),
                   <<WriteRequest(SubSeq(ids, 1, Len(growing_tape)), growing_tape)>>,
                   growing_tape,
                   IF bad # 0 THEN "Couldn't parse inputs" ELSE NoError,
                   IF bad # 0 THEN bad ELSE Len(ids))))

replace_docs(st, ids, contents, format) ==
    Bind(FirstDiscarded(contents, format), LAMBDA bad :
    Bind([i \in 1..(IF bad = 0 THEN Len(ids) ELSE bad - 1) |->
             push_back(parse_any(contents[i], format), internal_format_k)],
         LAMBDA growing_tape :
        IF bad # 0
        THEN Result(st, <<>>, growing_tape, "Couldn't parse inputs", bad)
        ELSE Result(ukv_write(st, ids, growing_tape),
                    <<WriteRequest(ids, growing_tape)>>,
                    growing_tape, NoError, Len(ids))))

(***************************************************************************)
(* read_modify_write: updates of fields, patches and merge-patches.        *)
(***************************************************************************)
\* &parsed != &null_object: the addresses of the callback's argument and of
\* its local variable
ParsedIsNotNullObject == TRUE

\* safe_callback of read_modify_write: the document of the task's id after
\* the update, and the value it pushes onto the tape
rmw_callback(parsed, field, content, format, asserts) ==
    Bind(parse_any(content, format), LAMBDA parsed_task :
    Bind(lookup_field(parsed, field), LAMBDA ref :
    Bind(deref(parsed, ref, Null), LAMBDA parsed_part :
        IF ParsedIsNotNullObject THEN
            Bind(IF format = "json_patch"
                 THEN patch(parsed_part, parsed_task, asserts)
                 ELSE IF format = "json_merge_patch"
                 THEN merge_patch(parsed_part, parsed_task)
                 ELSE parsed_task,
                 LAMBDA updated :
                    [parsed |-> IF ref.inside /\ updated # Thrown
                                THEN assign(parsed, ref.ptr, updated)
                                ELSE parsed,
                     pushed |-> updated])
        ELSE IF format \notin {"json_patch", "json_merge_patch"} THEN
            [parsed |-> unflatten(emplace(flatten(parsed), field, parsed_task)),
             pushed |-> parsed_part]
        ELSE [parsed |-> parsed, pushed |-> parsed_part])))

RECURSIVE rmw_tasks(_, _, _, _, _, _, _, _)
\* the loop of read_docs over the tasks, in the caller's order: each
\* callback sees the document as the callbacks before it left it.  The
\* callback catches std::bad_alloc alone: an exception of patch leaves the
\* noexcept read_modify_write, which ends the process
rmw_tasks(task_idx, ids, fields, contents, format, plan, acc, asserts) ==
    IF task_idx > Len(ids) \/ acc.terminated THEN acc
    ELSE Bind(parsed_idx(plan, ids, task_idx), LAMBDA j :
         Bind(rmw_callback(acc.docs[j], FieldOf(fields, task_idx),
                           contents[task_idx], format, asserts),
              LAMBDA r :
                rmw_tasks(task_idx + 1, ids, fields, contents, format, plan,
                          IF r.pushed = Thrown
                          THEN [acc EXCEPT !.terminated = TRUE]
                          ELSE [docs |-> [acc.docs EXCEPT ![j] = r.parsed],
                                tape |-> Append(acc.tape,
                                                push_back(r.pushed, internal_format_k)),
                                terminated |-> FALSE],
                          asserts)))

\* the tasks of read_modify_write before the first callback
NoTasks(docs) == [docs |-> docs, tape |-> <<>>, terminated |-> FALSE]

Terminated == "std::terminate"

\* a read_modify_write that addresses its write by the caller's input
read_modify_write_to_input(st, ids, fields, contents, format, asserts) ==
    Bind(read_docs(ids), LAMBDA read_order :
    Bind(rmw_tasks(1, ids, fields, contents, format, read_order,
                   NoTasks(ParsedDocs(ukv_read(st, read_order.keys))), asserts),
         LAMBDA done :
        IF done.terminated
        THEN Result(st, <<ReadRequest(read_order.keys)>>, <<>>, Terminated,
                    StoredParses(read_order) + Len(done.tape) + 1)
        ELSE Result(ukv_write(st, ids, done.tape),
                    <<ReadRequest(read_order.keys), WriteRequest(ids, done.tape)>>,
                    done.tape, NoError, StoredParses(read_order) + Len(ids))))

\* a read_modify_write that reads the documents again after its write
read_modify_write_reading_last(st, ids, fields, contents, format, asserts) ==
    Bind(read_docs(ids), LAMBDA read_order :
    Bind(rmw_tasks(1, ids, fields, contents, format, read_order,
                   NoTasks(ParsedDocs(ukv_read(st, read_order.keys))), asserts),
         LAMBDA done :
    Bind(SubSeq(done.tape, 1, Len(read_order.keys)), LAMBDA vals :
        IF done.terminated
        THEN Result(st, <<ReadRequest(read_order.keys)>>, <<>>, Terminated,
                    StoredParses(read_order) + Len(done.tape) + 1)
        ELSE Result(ukv_write(st, read_order.keys, vals),
                    <<ReadRequest(read_order.keys), WriteRequest(read_order.keys, vals),
                      ReadRequest(read_order.keys)>>,
                    done.tape, NoError, StoredParses(read_order) + Len(ids)))))

read_modify_write(st, ids, fields, contents, format, asserts) ==
    Bind(read_docs(ids), LAMBDA read_order :
    Bind(rmw_tasks(1, ids, fields, contents, format, read_order,
                   NoTasks(ParsedDocs(ukv_read(st, read_order.keys))), asserts),
         LAMBDA done :
    \* the write takes as many entries of the tape as read_order has keys
    Bind(SubSeq(done.tape, 1, Len(read_order.keys)), LAMBDA vals :
        IF done.terminated
        THEN Result(st, <<ReadRequest(read_order.keys)>>, <<>>, Terminated,
                    StoredParses(read_order) + Len(done.tape) + 1)
        ELSE Result(ukv_write(st, read_order.keys, vals),
                    <<ReadRequest(read_order.keys), WriteRequest(read_order.keys, vals)>>,
                    done.tape, NoError, StoredParses(read_order) + Len(ids)))))

(***************************************************************************)
(* ukv_docs_write and ukv_docs_read of the modality file.                  *)
(***************************************************************************)
\* a test of the fields that never sees any
has_fields_never(fields) == FALSE

\* has_fields: a fields array was passed
has_fields(fields) == fields # <<>>

CallerEntries(contents) == [i \in 1..Len(contents) |-> Present(contents[i])]

docs_write(st, ids, fields, contents, format, asserts) ==
    IF ~has_fields(fields) /\ format = internal_format_k
    THEN Bind(CallerEntries(contents), LAMBDA vals :
            Result(ukv_write(st, ids, vals), <<WriteRequest(ids, vals)>>, <<>>, NoError, 0))
    ELSE IF has_fields(fields) \/ format = "json_patch" \/ format = "json_merge_patch"
    THEN read_modify_write(st, ids, fields, contents, format, asserts)
    ELSE replace_docs(st, ids, contents, format)

\* the first task whose part dump_any cannot dump in the format, or 0
FirstFailedDump(parsed_parts, format) ==
    Bind({i \in 1..Len(parsed_parts) : dump_error(parsed_parts[i], format) # NoError},
         LAMBDA failed : IF failed = {} THEN 0
                         ELSE CHOOSE i \in failed : \A j \in failed : i <= j)

docs_read(st, ids, fields, format) ==
    IF ~has_fields(fields) /\ format = internal_format_k
    THEN Result(st, <<ReadRequest(ids)>>, ukv_read(st, ids), NoError, 0)
    ELSE Bind(read_docs(ids), LAMBDA plan :
         Bind(ParsedDocs(ukv_read(st, plan.keys)), LAMBDA parsed :
         Bind([i \in 1..Len(ids) |->
                  Bind(parsed[parsed_idx(plan, ids, i)], LAMBDA doc :
                       deref(doc, lookup_field(doc, FieldOf(fields, i)), Null))],
              LAMBDA parsed_parts :
         \* push_back returns at the first error of dump_any; the error stays
         \* set, so no later entry reaches the tape
         Bind(FirstFailedDump(parsed_parts, format), LAMBDA bad :
            IF bad = 0
            THEN Result(st, <<ReadRequest(plan.keys)>>,
                        [i \in 1..Len(ids) |-> push_back(parsed_parts[i], format)],
                        NoError, StoredParses(plan))
            ELSE Result(st, <<ReadRequest(plan.keys)>>,
                        [i \in 1..(bad - 1) |-> push_back(parsed_parts[i], format)],
                        dump_error(parsed_parts[bad], format),
                        IF plan.shared THEN StoredParses(plan)
                        ELSE Min(bad + 1, Len(ids)))))))

(***************************************************************************)
(* ukv_docs_gist: the paths of the flattened documents, as a set.          *)
(***************************************************************************)
docs_gist(st, ids) ==
    LET found == ukv_read(st, ids)
        parsed_flat(i) == flatten(parse_any(Blob(found[i]), internal_format_k))
        paths == UNION {DOMAIN parsed_flat(i).m : i \in 1..Len(ids)}
    IN ResultWith(st, <<ReadRequest(ids)>>, <<>>, NoError, Len(ids),
                  [paths |-> paths, fields_count |-> Cardinality(paths)])

(***************************************************************************)
(* ukv_docs_gather.  Scalar types of the model: bool, i8, u8, i16, i32;    *)
(* the strings are str.  A scalar, an offset or a length is <<>> while the *)
(* code has not written it (for a length: ukv_length_missing_k).           *)
(***************************************************************************)
is_signed(type) == type \in {"i8", "i16", "i32"}
\* std::is_unsigned_v taken to hold for i32 as well
is_unsigned_or_i32(type) == type \in {"bool", "u8", "i32"}

is_unsigned(type) == type \in {"bool", "u8"}
Width(type) == IF type = "i32" THEN 32 ELSE IF type = "i16" THEN 16 ELSE 8

\* static_cast<scalar_at>: modulo 2^width, bool is "not zero"; the numbers
\* of the model are themselves 32 bits wide, so i32 keeps every one of them
static_cast(type, n) ==
    IF type = "bool" THEN (IF n # 0 THEN 1 ELSE 0)
    ELSE IF type = "i32" THEN n
    ELSE LET m == 2 ^ Width(type)
             r == n % m
         IN IF is_signed(type) /\ r >= m \div 2 THEN r - m ELSE r

(***************************************************************************)
(* Floats in a gather.  A float is significand * 2^(exponent - 23) with a  *)
(* significand below 2^24; its decimal digits are computed on sequences of *)
(* digits, since the whole part may exceed any integer of the model.  The  *)
(* floats of the model are at least 2^-4 in magnitude, or zero.            *)
(***************************************************************************)
\* twice the number of the decimal digits ds: the carry into a digit is
\* one when the digit behind it is five or more
DoubleDigits ==
    [ds \in Seq(48..57) |->
        Tail((IF ds[1] >= 53 THEN <<48, 49>> ELSE <<48>>)
             \o [i \in 1..Len(ds) |->
                   48 + ((2 * (ds[i] - 48)
                          + (IF i < Len(ds) /\ ds[i + 1] >= 53 THEN 1 ELSE 0)) % 10)])]

\* the number of the digits ds plus one
IncrementDigits(ds) ==
    LET nines == {i \in 1..Len(ds) : \A j \in i..Len(ds) : ds[j] = 57}
        keep == Len(ds) - Cardinality(nines)
    IN (IF keep = 0 THEN <<49>>
        ELSE SubSeq(ds, 1, keep - 1) \o <<ds[keep] + 1>>)
       \o [i \in 1..Cardinality(nines) |-> 48]

RECURSIVE ShiftedDigits(_, _)
\* the digits of the number of ds times 2^times
ShiftedDigits(ds, times) ==
    IF times = 0 THEN ds ELSE DoubleDigits[ShiftedDigits(ds, times - 1)]

\* the bits of the significand behind the binary point
FractionBits(value) == IF value.exponent >= 23 THEN 0 ELSE 23 - value.exponent

\* the whole part of the magnitude, for a float below 2^31
WholePart(value) ==
    IF value.exponent >= 23 THEN value.significand * (2 ^ (value.exponent - 23))
    ELSE value.significand \div (2 ^ FractionBits(value))

\* the decimal digits of the whole part of the magnitude
WholeDigits(value) ==
    IF value.exponent >= 23
    THEN ShiftedDigits(Digits(value.significand), value.exponent - 23)
    ELSE Digits(WholePart(value))

RECURSIVE FractionDigits(_, _, _)
\* the first n decimal digits of rem / 2^bits and what remains
FractionDigits(rem, bits, n) ==
    IF n = 0 THEN [digits |-> <<>>, rem |-> rem]
    ELSE LET rest == FractionDigits((rem * 10) % (2 ^ bits), bits, n - 1)
         IN [digits |-> <<48 + ((rem * 10) \div (2 ^ bits))>> \o rest.digits,
             rem |-> rest.rem]

\* snprintf(begin, size, "%f", scalar): the text it would write in full,
\* six digits behind the point, rounded to nearest, ties to even
printf_f(value) ==
    LET bits == FractionBits(value)
        f == FractionDigits(value.significand % (2 ^ bits), bits, 6)
        digits == WholeDigits(value) \o f.digits
        up == \/ 2 * f.rem > 2 ^ bits
              \/ (2 * f.rem = 2 ^ bits /\ digits[Len(digits)] % 2 = 1)
        rounded == IF up THEN IncrementDigits(digits) ELSE digits
    IN (IF value.negative THEN <<45>> ELSE <<>>)
       \o SubSeq(rounded, 1, Len(rounded) - 6) \o <<46>>
       \o SubSeq(rounded, Len(rounded) - 5, Len(rounded))

print_buf_len_k == 32

\* print_scalar of a float: to_chars returns the last character of the
\* text as its end, so the NUL replaces that character; <<>> when the text
\* and its NUL do not fit the buffer
print_float(value) ==
    LET text == printf_f(value)
    IN IF Len(text) < print_buf_len_k
       THEN SubSeq(text, 1, Len(text) - 1) \o <<0>>
       ELSE <<>>

\* cvttsd2si of a value outside the range of the register
IntegerIndefinite == -2147483647 - 1
\* fcvtzs of such a value
Saturated(value) == IF value.negative THEN -2147483647 - 1 ELSE 2147483647

\* the value of a float of at least 2^31 in magnitude modulo 2^width, as
\* the type holds it
WrappedMagnitude(type, value) ==
    LET shift == value.exponent - 23
        width == Width(type)
    IN IF shift >= width THEN 0
       ELSE LET high == value.significand % (2 ^ (width - shift))
            IN IF is_signed(type) /\ high >= 2 ^ (width - shift - 1)
               THEN (high - 2 ^ (width - shift)) * (2 ^ shift)
               ELSE high * (2 ^ shift)

Wrapped(type, value) ==
    IF value.exponent <= 30
    THEN static_cast(type, IF value.negative THEN 0 - WholePart(value) ELSE WholePart(value))
    ELSE LET w == WrappedMagnitude(type, value)
         IN IF ~value.negative \/ w = IntegerIndefinite THEN w
            ELSE static_cast(type, 0 - w)

\* static_cast<scalar_at>(double) for an integral scalar_at truncates; when
\* the truncated value is not one of the type the behaviour is undefined:
\* the outcomes are the value modulo 2^width and what the conversion
\* instructions of x86 and of ARM leave in the low bits of the register
float_cast(type, value) ==
    IF type = "bool" THEN {IF value.significand # 0 THEN 1 ELSE 0}
    ELSE IF value.exponent <= 30
            /\ Wrapped(type, value)
                   = (IF value.negative THEN 0 - WholePart(value) ELSE WholePart(value))
    THEN {Wrapped(type, value)}
    ELSE IF type = "i32" /\ value.negative /\ value.exponent = 31
            /\ value.significand = 8388608
    THEN {IntegerIndefinite}
    ELSE {Wrapped(type, value), static_cast(type, IntegerIndefinite),
          static_cast(type, Saturated(value))}


true_k == <<116, 114, 117, 101>>
false_k == <<102, 97, 108, 115, 101>>

\* from_chars: <<>> unless the entire string is a value of the type
from_chars(type, str) ==
    IF type = "bool"
    THEN (IF str = true_k THEN <<1>> ELSE IF str = false_k THEN <<0>> ELSE <<>>)
    ELSE LET neg == is_signed(type) /\ str # <<>> /\ str[1] = 45
             ds == IF neg THEN Tail(str) ELSE str
             r == JsonDigits(ds, 0)
             n == IF neg THEN 0 - r.n ELSE r.n
         IN IF ds = <<>> \/ r.rest # <<>> \/ static_cast(type, n) # n THEN <<>>
            ELSE <<n>>

\* the masks applied with the validity bit first
SetBits_valid_first(wants_conversions, wants_collisions, convert, collide, valid) ==
    LET conversions == IF wants_conversions THEN "conversions" ELSE "validities"
        collisions == IF wants_collisions THEN "collisions" ELSE "validities"
        b0 == [validities |-> valid, conversions |-> FALSE, collisions |-> FALSE]
        b1 == [b0 EXCEPT ![conversions] = convert]
    IN [b1 EXCEPT ![collisions] = collide]

\* the masks of one document in the bitmaps of one column, applied in the
\* order of the code; a bitmap the caller did not ask for is the validity
\* bitmap itself
SetBits(wants_conversions, wants_collisions, convert, collide, valid) ==
    LET conversions == IF wants_conversions THEN "conversions" ELSE "validities"
        collisions == IF wants_collisions THEN "collisions" ELSE "validities"
        b0 == [validities |-> FALSE, conversions |-> FALSE, collisions |-> FALSE]
        b1 == [b0 EXCEPT ![conversions] = convert]
        b2 == [b1 EXCEPT ![collisions] = collide]
    IN [b2 EXCEPT !.validities = valid]

Cell(bits, scalar, off, len) ==
    [bits |-> bits, scalar |-> scalar, off |-> off, len |-> len]

\* the cell of a source that is not a float; the cast of a float can have
\* more than one outcome and is followed store by store below
export_scalar_column(value, type, wc, wk) ==
    IF value.t = "null" THEN Cell(SetBits(wc, wk, FALSE, FALSE, FALSE), <<>>, <<>>, <<>>)
    ELSE IF value.t \in {"discarded", "obj", "arr"}
    THEN Cell(SetBits(wc, wk, FALSE, TRUE, FALSE), <<>>, <<>>, <<>>)
    ELSE IF value.t = "bin" THEN
        (IF Len(value.x) = Width(type) \div 8
         THEN Cell(SetBits(wc, wk, TRUE, FALSE, TRUE), value.x, <<>>, <<>>)
         ELSE Cell(SetBits(wc, wk, FALSE, TRUE, FALSE), <<>>, <<>>, <<>>))
    ELSE IF value.t = "str" THEN
        (IF from_chars(type, value.s) # <<>>
         THEN Cell(SetBits(wc, wk, TRUE, FALSE, TRUE), from_chars(type, value.s), <<>>, <<>>)
         ELSE Cell(SetBits(wc, wk, FALSE, TRUE, FALSE), <<>>, <<>>, <<>>))
    ELSE IF value.t = "bool"
    THEN Cell(SetBits(wc, wk, type # "bool", FALSE, TRUE),
              <<IF value.b THEN 1 ELSE 0>>, <<>>, <<>>)
    ELSE IF value.t = "int"
    THEN Cell(SetBits(wc, wk, ~is_signed(type), FALSE, TRUE),
              <<static_cast(type, value.i)>>, <<>>, <<>>)
    ELSE Cell(SetBits(wc, wk, ~is_unsigned(type), FALSE, TRUE),
              <<static_cast(type, value.u)>>, <<>>, <<>>)

\* print_scalar: the digits and a NUL; the length counts the NUL
print_scalar(n) == (IF n < 0 THEN <<45>> \o Digits(0 - n) ELSE Digits(n)) \o <<0>>

\* export_string_column: the cell and the bytes it adds to the string tape
export_string_column(value, output, wc, wk) ==
    LET ref_off == <<Len(output)>>
    IN IF value.t = "null"
       THEN [cell |-> Cell(SetBits(wc, wk, FALSE, FALSE, FALSE), <<>>, <<>>, <<>>),
             added |-> <<>>]
       ELSE IF value.t \in {"discarded", "obj", "arr"}
       THEN [cell |-> Cell(SetBits(wc, wk, FALSE, TRUE, FALSE), <<>>, <<>>, <<>>),
             added |-> <<>>]
       ELSE IF value.t = "bin"
       THEN [cell |-> Cell(SetBits(wc, wk, FALSE, FALSE, TRUE), <<>>, ref_off,
                           <<Len(value.x)>>),
             added |-> value.x]
       ELSE IF value.t = "str"
       THEN [cell |-> Cell(SetBits(wc, wk, FALSE, FALSE, TRUE), <<>>, ref_off,
                           <<Len(value.s)>>),
             added |-> value.s \o <<0>>]
       ELSE IF value.t = "bool"
       THEN [cell |-> Cell(SetBits(wc, wk, TRUE, FALSE, TRUE), <<>>, ref_off,
                           <<IF value.b THEN 5 ELSE 6>>),
             added |-> (IF value.b THEN true_k ELSE false_k) \o <<0>>]
       ELSE LET printed == print_scalar(IF value.t = "int" THEN value.i ELSE value.u)
            IN [cell |-> Cell(SetBits(wc, wk, TRUE, FALSE, TRUE), <<>>, ref_off,
                              <<Len(printed)>>),
                added |-> printed]

\* the field of a column within a document, or the null object
found_value(parsed, name_or_path) ==
    deref(parsed, lookup_field(parsed, name_or_path), Null)

RECURSIVE gather_cells(_, _, _, _, _, _, _)
\* the loops over the documents and, within each, over the fields: acc
\* holds the rows of cells so far and the string tape
gather_cells(docs, columns, wc, wk, doc_idx, field_idx, acc) ==
    IF doc_idx > Len(docs) THEN acc
    ELSE IF field_idx > Len(columns)
    THEN gather_cells(docs, columns, wc, wk, doc_idx + 1, 1,
                      IF doc_idx = Len(docs) THEN acc
                      ELSE [acc EXCEPT !.rows = Append(acc.rows, <<>>)])
    ELSE LET value == found_value(docs[doc_idx], columns[field_idx].field)
             type == columns[field_idx].type
             e == IF type = "str"
                  THEN export_string_column(value, acc.string_tape, wc, wk)
                  ELSE [cell |-> export_scalar_column(value, type, wc, wk), added |-> <<>>]
             rows == [acc.rows EXCEPT ![doc_idx] = Append(acc.rows[doc_idx], e.cell)]
         IN gather_cells(docs, columns, wc, wk, doc_idx, field_idx + 1,
                         [rows |-> rows, string_tape |-> acc.string_tape \o e.added])

(***************************************************************************)
(* The same exports as the sequence of stores the code performs on one     *)
(* cell, in the order of the source.  ref names the target of the store:   *)
(* "scalar", "off", "len", "convert", "collide", "valid", or "tape" for an *)
(* insert at the end of the string tape, "off_size" for the store of the   *)
(* size the string tape has at that moment into the offset, "scalar_cast"  *)
(* for the store of a cast whose outcomes are the set val.                 *)
(***************************************************************************)
Store(ref, val) == [ref |-> ref, val |-> val]

\* the masks of a cell with the validity bit set on a collision as well
Masks_valid_on_collision(convert, collide, valid) ==
    <<Store("convert", convert), Store("collide", collide),
      Store("valid", valid \/ collide)>>

Masks(convert, collide, valid) ==
    <<Store("convert", convert), Store("collide", collide), Store("valid", valid)>>

scalar_column_writes(value, type) ==
    IF value.t = "null" THEN Masks(FALSE, FALSE, FALSE)
    ELSE IF value.t \in {"discarded", "obj", "arr"} THEN Masks(FALSE, TRUE, FALSE)
    ELSE IF value.t = "bin" THEN
        (IF Len(value.x) = Width(type) \div 8
         THEN Masks(TRUE, FALSE, TRUE) \o <<Store("scalar", value.x)>>
         ELSE Masks(FALSE, TRUE, FALSE))
    ELSE IF value.t = "str" THEN
        (IF from_chars(type, value.s) # <<>>
         THEN <<Store("scalar", from_chars(type, value.s))>> \o Masks(TRUE, FALSE, TRUE)
         ELSE Masks(FALSE, TRUE, FALSE))
    ELSE IF value.t = "bool"
    THEN <<Store("scalar", <<IF value.b THEN 1 ELSE 0>>)>>
         \o Masks(type # "bool", FALSE, TRUE)
    ELSE IF value.t = "int"
    THEN <<Store("scalar", <<static_cast(type, value.i)>>)>>
         \o Masks(~is_signed(type), FALSE, TRUE)
    ELSE IF value.t = "float"
    THEN <<Store("scalar_cast", float_cast(type, value))>> \o Masks(TRUE, FALSE, TRUE)
    ELSE <<Store("scalar", <<static_cast(type, value.u)>>)>>
         \o Masks(~is_unsigned(type), FALSE, TRUE)

string_column_writes(value) ==
    <<Store("off_size", <<>>)>> \o
    (IF value.t = "null"
     THEN Masks(FALSE, FALSE, FALSE) \o <<Store("len", <<>>), Store("off", <<>>)>>
     ELSE IF value.t \in {"discarded", "obj", "arr"}
     THEN Masks(FALSE, TRUE, FALSE) \o <<Store("len", <<>>), Store("off", <<>>)>>
     ELSE IF value.t = "bin"
     THEN <<Store("len", <<Len(value.x)>>), Store("tape", value.x)>>
          \o Masks(FALSE, FALSE, TRUE)
     ELSE IF value.t = "str"
     THEN <<Store("len", <<Len(value.s)>>), Store("tape", value.s \o <<0>>)>>
          \o Masks(FALSE, FALSE, TRUE)
     ELSE IF value.t = "bool"
     THEN <<Store("len", <<IF value.b THEN 5 ELSE 6>>),
            Store("tape", (IF value.b THEN true_k ELSE false_k) \o <<0>>)>>
          \o Masks(TRUE, FALSE, TRUE)
     ELSE IF value.t = "float"
     THEN (IF print_float(value) # <<>>
           THEN <<Store("tape", print_float(value)),
                  Store("len", <<Len(print_float(value))>>)>>
                \o Masks(TRUE, FALSE, TRUE)
           ELSE <<Store("len", <<>>)>> \o Masks(TRUE, TRUE, FALSE))
     ELSE LET printed == print_scalar(IF value.t = "int" THEN value.i ELSE value.u)
          IN <<Store("tape", printed), Store("len", <<Len(printed)>>)>>
             \o Masks(TRUE, FALSE, TRUE))

column_writes(value, type) ==
    IF type = "str" THEN string_column_writes(value)
    ELSE scalar_column_writes(value, type)

\* the stores a store of the export may turn out to be
StoreOutcomes(w) ==
    IF w.ref = "scalar_cast" THEN {Store("scalar", <<n>>) : n \in w.val} ELSE {w}

\* the memory of a cell as arena.alloc hands it out: the bits hold whatever
\* was there, nothing else is written yet; a bitmap the caller did not ask
\* for does not exist
FreshCell(garbage, wants_conversions, wants_collisions) ==
    Cell([validities |-> garbage, conversions |-> wants_conversions /\ garbage,
          collisions |-> wants_collisions /\ garbage], <<>>, <<>>, <<>>)

\* one store of the export into the cell of (doc_idx, field_idx)
apply_write(out, doc_idx, field_idx, w, wants_conversions, wants_collisions) ==
    LET cell == out.rows[doc_idx][field_idx]
        bit == IF w.ref = "convert" /\ wants_conversions THEN "conversions"
               ELSE IF w.ref = "collide" /\ wants_collisions THEN "collisions"
               ELSE "validities"
        stored ==
            IF w.ref = "scalar" THEN [cell EXCEPT !.scalar = w.val]
            ELSE IF w.ref = "len" THEN [cell EXCEPT !.len = w.val]
            ELSE IF w.ref = "off" THEN [cell EXCEPT !.off = w.val]
            ELSE IF w.ref = "off_size"
            THEN [cell EXCEPT !.off = <<Len(out.string_tape)>>]
            ELSE IF w.ref = "tape" THEN cell
            ELSE [cell EXCEPT !.bits[bit] = w.val]
    IN [rows |-> [out.rows EXCEPT ![doc_idx][field_idx] = stored],
        string_tape |-> IF w.ref = "tape" THEN out.string_tape \o w.val
                        ELSE out.string_tape]

\* parse_fields: a NULL field is refused
NullFieldAmong(columns) == \E f \in 1..Len(columns) : columns[f].field = NullField

docs_gather(st, ids, columns, wants_conversions, wants_collisions) ==
    LET found == ukv_read(st, ids)
    IN IF NullFieldAmong(columns)
       THEN Result(st, <<ReadRequest(ids)>>, <<>>,
                   "NULL JSON-Pointers are not allowed!", 0)
       ELSE ResultWith(st, <<ReadRequest(ids)>>, <<>>, NoError, Len(ids),
                       gather_cells(ParsedDocs(found), columns,
                                    wants_conversions, wants_collisions, 1, 1,
                                    [rows |-> <<<<>>>>, string_tape |-> <<>>]))

(***************************************************************************)
(* ukv_docs_write and ukv_docs_read of logic_docs.cpp.  There json_t::parse*)
(* throws on a text it cannot parse (allow_exceptions = true) and          *)
(* from_msgpack is strict; nothing catches the exception.                  *)
(***************************************************************************)
Exception == "parse_error thrown"

logic_parse_any(bytes, format) ==
    IF format \in {"json", "json_patch"}
    THEN Bind(parse(bytes), LAMBDA json : IF is_discarded(json) THEN Thrown ELSE json)
    ELSE from_msgpack(bytes, TRUE)

logic_dump_any(json, format) ==
    IF format = "json" THEN dump(json) ELSE write_msgpack(json)

\* the first entry on which the loop stops: parse_any throws, or the parsed
\* document is discarded; 0 when the loop runs to its end
FirstStop(contents, format) ==
    LET bad == {i \in 1..Len(contents) :
                   logic_parse_any(contents[i], format).t \in {"exception", "discarded"}}
    IN IF bad = {} THEN 0 ELSE CHOOSE i \in bad : \A j \in bad : i <= j

update_docs(st, ids, contents, format) ==
    Bind(FirstStop(contents, format), LAMBDA bad :
        IF bad # 0
        THEN Result(st, <<>>, <<>>,
                    IF logic_parse_any(contents[bad], format) = Thrown
                    THEN Exception ELSE "Couldn't parse inputs",
                    bad)
        ELSE Bind([i \in 1..Len(ids) |->
                      Present(logic_dump_any(logic_parse_any(contents[i], format),
                                             "msgpack"))],
                  LAMBDA updated_vals :
                    Result(ukv_write(st, ids, updated_vals),
                           <<WriteRequest(ids, updated_vals)>>, <<>>, NoError, Len(ids))))

\* update_fields: parses nothing and writes nothing
update_fields(st) == Result(st, <<>>, <<>>, NoError, 0)

logic_docs_write(st, ids, fields, contents, format) ==
    IF fields = <<>> /\ format = internal_format_k
    THEN Bind(CallerEntries(contents), LAMBDA vals :
            Result(ukv_write(st, ids, vals), <<WriteRequest(ids, vals)>>, <<>>, NoError, 0))
    ELSE IF fields # <<>> THEN update_fields(st)
    ELSE update_docs(st, ids, contents, format)

logic_docs_read(st, ids, fields, format) ==
    IF fields = <<>> /\ format = internal_format_k
    THEN Result(st, <<ReadRequest(ids)>>, ukv_read(st, ids), NoError, 0)
    ELSE Bind(sort_and_deduplicate(ids), LAMBDA updated_keys :
         \* the stored bytes are parsed in the caller's format
         Bind([j \in 1..Len(updated_keys) |->
                  logic_parse_any(Blob(st[updated_keys[j]]), format)],
              LAMBDA parsed_values :
         Bind({j \in 1..Len(updated_keys) : parsed_values[j] = Thrown}, LAMBDA thrown :
            IF thrown # {}
            THEN Result(st, <<ReadRequest(updated_keys)>>, <<>>, Exception,
                        CHOOSE j \in thrown : \A k \in thrown : j <= k)
            ELSE Result(st, <<ReadRequest(updated_keys)>>,
                        [i \in 1..Len(ids) |->
                            Bind(parsed_values[offset_in_sorted(updated_keys, ids[i])],
                                 LAMBDA doc :
                                    TapeEntry(
                                        logic_dump_any(
                                            deref(doc, lookup_field(doc, FieldOf(fields, i)),
                                                  Null),
                                            format)
                                        \o (IF format = "json" THEN <<0>> ELSE <<>>)))],
                        NoError, Len(updated_keys)))))

(***************************************************************************)
(* The inputs of the calls.                                                *)
(***************************************************************************)
MaxBatch == 4        \* longest batch of a read
MaxWriteBatch == 2   \* longest batch of a write

DocumentIds == {<<0, 10>>, <<0, 11>>, <<1, 10>>}

\* the documents that calls write; the third id stays absent
WrittenIds == {<<0, 10>>, <<0, 11>>}

Batches(n, among) == UNION {[1..k -> among] : k \in 1..n}


FieldX == <<120>>            \* "x"
FieldA == <<47, 97>>         \* "/a"
FieldPattern == <<FieldA, NullField, FieldX>>

\* no fields array, one field for every task, or different fields per task
FieldSeqs(k) ==
    {<<>>} \cup {[i \in 1..k |-> f] : f \in {FieldX, FieldA}}
           \cup {[i \in 1..k |-> FieldPattern[((i - 1) % 3) + 1]]}

JsonAB == <<123, 34, 97, 34, 58, 123, 34, 98, 34, 58, 49, 44, 34, 99, 34, 58, 50, 125, 125>>
JsonPatchBD == <<123, 34, 98, 34, 58, 110, 117, 108, 108, 44, 34, 100, 34, 58, 51, 125>>
JsonX7 == <<123, 32, 34, 120, 34, 58, 55, 125>>
JsonBad == <<123, 34, 120, 34>>
\* [{"op":"add","path":"/d","value":3}]
JsonPatchAddD ==
    <<91, 123, 34, 111, 112, 34, 58, 34, 97, 100, 100, 34, 44,
      34, 112, 97, 116, 104, 34, 58, 34, 47, 100, 34, 44,
      34, 118, 97, 108, 117, 101, 34, 58, 51, 125, 93>>
MsgpackX7 == <<129, 161, 120, 7>>
MsgpackBad == <<193>>

\* the fields of a read: none, one pointer for every task, or the pattern
ReadFieldSeqs(k) ==
    {<<>>, [i \in 1..k |-> FieldA], [i \in 1..k |-> FieldPattern[((i - 1) % 3) + 1]]}

\* the payloads a caller passes in each format, in a fixed rotation
Payloads(format) ==
    IF format = "json" THEN <<JsonAB, JsonX7, JsonBad>>
    ELSE IF format = "json_merge_patch" THEN <<JsonPatchBD, JsonBad>>
    ELSE IF format = "json_patch" THEN <<JsonPatchAddD>>
    ELSE <<MsgpackX7, MsgpackBad>>

Contents(k, format) ==
    LET p == Payloads(format)
    IN {[i \in 1..k |-> p[((r + i - 2) % Len(p)) + 1]] : r \in 1..Len(p)}

WriteFormats == {"json", "json_patch", "json_merge_patch", "msgpack"}
ReadFormats == {"json", "msgpack"}

\* no stress test is running
NoTest ==
    /\ threads = <<>>
    /\ shared_keys = <<>>
    /\ versions = <<>>
    /\ committed = <<>>
    /\ operations = <<>>

\* no docs_gather is under way
NoCursor == [doc_idx |-> 0, field_idx |-> 0, step |-> 0]

NoCall ==
    [op |-> "none", impl |-> "none", ids |-> <<>>, fields |-> <<>>,
     format |-> "none", contents |-> <<>>]

NotWritten == [format |-> "none", bytes |-> <<>>]

RECURSIVE Record(_, _, _, _)
\* history: the payload and format of the last whole-document write per id
Record(w, ids, contents, format) ==
    IF ids = <<>> THEN w
    ELSE Record([w EXCEPT ![ids[1]] = [format |-> format, bytes |-> contents[1]]],
                Tail(ids), Tail(contents), format)

Forget(w, ids) ==
    [id \in DOMAIN w |-> IF \E i \in 1..Len(ids) : ids[i] = id THEN NotWritten ELSE w[id]]

IssuedWrite(r) == \E i \in 1..Len(r.kvLog) : r.kvLog[i].op = "write"

FieldAB == <<47, 97, 47, 98>>    \* "/a/b"

Column(field, type) == [field |-> field, type |-> type]

\* the columns of a gather: one field in each type, or two fields
GatherColumns ==
    {<<Column(f, t)>> : f \in {FieldX, FieldA, FieldAB},
                        t \in {"bool", "i8", "u8", "i16", "str"}}
    \cup {<<Column(FieldX, "u8"), Column(FieldAB, "str")>>,
          <<Column(FieldAB, "i8"), Column(NullField, "str")>>}

WrittenAfter(r, ids, contents, format, whole) ==
    IF ~IssuedWrite(r) \/ whole = "no write" THEN written
    ELSE IF whole = "whole" THEN Record(written, ids, contents, format)
    ELSE Forget(written, ids)

Call(op, ids, fields, format, contents) ==
    [op |-> op, impl |-> impl, ids |-> ids, fields |-> fields, format |-> format,
     contents |-> contents]

\* the state a call leaves when it returns
Returns(r, c, whole) ==
    /\ pc' = "done"
    /\ before' = store
    /\ call' = c
    /\ store' = r.store
    /\ kvLog' = r.kvLog
    /\ tape' = r.tape
    /\ error' = r.error
    /\ parses' = r.parses
    /\ exported' = r.exported
    /\ written' = WrittenAfter(r, c.ids, c.contents, c.format, whole)
    /\ UNCHANGED <<impl, cursor, testvars>>

ukv_docs_write(ids, fields, contents, format, asserts) ==
    /\ pc = "idle"
    /\ impl = "modality"
    /\ Returns(docs_write(store, ids, fields, contents, format, asserts),
               Call("write", ids, fields, format, contents),
               IF ~has_fields(fields) /\ format \notin {"json_patch", "json_merge_patch"}
               THEN "whole" ELSE "part")

ukv_docs_read(ids, fields, format) ==
    /\ pc = "idle"
    /\ impl = "modality"
    /\ Returns(docs_read(store, ids, fields, format),
               Call("read", ids, fields, format, <<>>), "no write")

ukv_docs_gist(ids) ==
    /\ pc = "idle"
    /\ impl = "modality"
    /\ Returns(docs_gist(store, ids), Call("gist", ids, <<>>, "none", <<>>), "no write")

ukv_docs_gather(ids, columns, wants_conversions, wants_collisions) ==
    /\ pc = "idle"
    /\ impl = "modality"
    /\ Returns(docs_gather(store, ids, columns, wants_conversions, wants_collisions),
               Call("gather", ids, [f \in 1..Len(columns) |-> columns[f].field],
                    "none", <<>>),
               "no write")

logic_ukv_docs_write(ids, fields, contents, format) ==
    /\ pc = "idle"
    /\ impl = "logic"
    /\ Returns(logic_docs_write(store, ids, fields, contents, format),
               Call("write", ids, fields, format, contents), "whole")

logic_ukv_docs_read(ids, fields, format) ==
    /\ pc = "idle"
    /\ impl = "logic"
    /\ Returns(logic_docs_read(store, ids, fields, format),
               Call("read", ids, fields, format, <<>>), "no write")

\* the caller is done with the outputs; the arena of the call is released
Release ==
    /\ pc = "done"
    /\ pc' = "idle"
    /\ before' = store
    /\ call' = NoCall
    /\ kvLog' = <<>>
    /\ tape' = <<>>
    /\ error' = NoError
    /\ parses' = 0
    /\ exported' = NoExport
    /\ UNCHANGED <<impl, store, written, cursor, testvars>>

Init ==
    /\ impl \in {"modality", "logic"}
    /\ store = [id \in DocumentIds |-> Missing]
    /\ before = [id \in DocumentIds |-> Missing]
    /\ pc = "idle"
    /\ call = NoCall
    /\ kvLog = <<>>
    /\ tape = <<>>
    /\ error = NoError
    /\ parses = 0
    /\ exported = NoExport
    /\ written = [id \in DocumentIds |-> NotWritten]
    /\ cursor = NoCursor
    /\ NoTest

\* asserts: whether the build keeps the assertions of the JSON library
Write ==
    \E ids \in Batches(MaxWriteBatch, WrittenIds), format \in WriteFormats :
        \E fields \in FieldSeqs(Len(ids)), contents \in Contents(Len(ids), format) :
            \E asserts \in BOOLEAN :
                ukv_docs_write(ids, fields, contents, format, asserts)

Read ==
    \E ids \in Batches(MaxBatch, DocumentIds), format \in ReadFormats \cup {"field_default"} :
        \E fields \in ReadFieldSeqs(Len(ids)) :
            ukv_docs_read(ids, fields, format)

Gist == \E ids \in Batches(MaxWriteBatch, DocumentIds) : ukv_docs_gist(ids)

Gather ==
    \E ids \in Batches(MaxWriteBatch, WrittenIds), columns \in GatherColumns :
        \E wants_conversions \in BOOLEAN, wants_collisions \in BOOLEAN :
            ukv_docs_gather(ids, columns, wants_conversions, wants_collisions)

LogicWrite ==
    \E ids \in Batches(MaxWriteBatch, WrittenIds), format \in ReadFormats :
        \E fields \in {<<>>, [i \in 1..Len(ids) |-> FieldA]},
           contents \in Contents(Len(ids), format) :
            logic_ukv_docs_write(ids, fields, contents, format)

LogicRead ==
    \E ids \in Batches(MaxBatch, DocumentIds), format \in ReadFormats :
        \E fields \in ReadFieldSeqs(Len(ids)) :
            logic_ukv_docs_read(ids, fields, format)

Next == Write \/ Read \/ Gist \/ Gather \/ LogicWrite \/ LogicRead \/ Release

Spec == Init /\ [][Next]_vars

(***************************************************************************)
(* ukv_docs_gather store by store: GatherSpec follows one gather through   *)
(* every store it performs on its output, over four documents that hold a  *)
(* member x of each type.                                                  *)
(***************************************************************************)
GatherKeys == <<<<2, 1>>, <<2, 2>>, <<2, 3>>, <<2, 4>>>>
GatherIds == {GatherKeys[i] : i \in 1..Len(GatherKeys)}

MsgpackXStr42 == <<129, 161, 120, 162, 52, 50>>       \* {"x":"42"}
MsgpackX42 == <<129, 161, 120, 42>>                   \* {"x":42}
MsgpackXTrue == <<129, 161, 120, 195>>                \* {"x":true}
MsgpackXObj == <<129, 161, 120, 128>>                 \* {"x":{}}
MsgpackXBin == <<129, 161, 120, 196, 4, 5, 0, 0, 0>>  \* {"x":bin(05 00 00 00)}
MsgpackXMinus3 == <<129, 161, 120, 253>>              \* {"x":-3}
MsgpackXStrNo == <<129, 161, 120, 162, 110, 111>>     \* {"x":"no"}

\* the documents a caller stores under each of the keys
GatherPayloads ==
    <<{MsgpackXStr42, MsgpackXBin}, {MsgpackX42, MsgpackXMinus3},
      {MsgpackXTrue, MsgpackXStrNo}, {MsgpackXObj, MsgpackX42}>>

FieldPointerX == <<47, 120>>    \* "/x"

GatherSpecColumns ==
    {<<Column(FieldPointerX, "i32")>>, <<Column(FieldPointerX, "str")>>,
     <<Column(FieldX, "bool")>>, <<Column(NullField, "i32")>>}

GatherCall(ids, columns, wants_conversions, wants_collisions) ==
    [op |-> "gather", impl |-> impl, ids |-> ids,
     fields |-> [f \in 1..Len(columns) |-> columns[f].field],
     format |-> "none", contents |-> <<>>,
     types |-> [f \in 1..Len(columns) |-> columns[f].type],
     wants_conversions |-> wants_conversions, wants_collisions |-> wants_collisions]

GatherInit ==
    /\ impl = "modality"
    /\ store = [id \in GatherIds |-> Missing]
    /\ before = [id \in GatherIds |-> Missing]
    /\ pc = "idle"
    /\ call = NoCall
    /\ kvLog = <<>>
    /\ tape = <<>>
    /\ error = NoError
    /\ parses = 0
    /\ exported = NoExport
    /\ written = [id \in GatherIds |-> NotWritten]
    /\ cursor = NoCursor
    /\ NoTest

\* a whole document is stored in the internal format
GatherStore ==
    \E i \in 1..Len(GatherKeys) : \E payload \in GatherPayloads[i] :
        ukv_docs_write(<<GatherKeys[i]>>, <<>>, <<payload>>, internal_format_k, TRUE)

\* ukv_docs_gather up to its loop: the read, parse_fields, the allocation
\* of the columns
gather_begin(ids, columns, wants_conversions, wants_collisions, garbage) ==
    /\ pc = "idle"
    /\ impl = "modality"
    /\ before' = store
    /\ call' = GatherCall(ids, columns, wants_conversions, wants_collisions)
    /\ kvLog' = <<ReadRequest(ids)>>
    /\ tape' = <<>>
    /\ parses' = 0
    /\ IF NullFieldAmong(columns)
       THEN /\ pc' = "done"
            /\ error' = "NULL JSON-Pointers are not allowed!"
            /\ exported' = NoExport
            /\ cursor' = NoCursor
       ELSE /\ pc' = "gathering"
            /\ error' = NoError
            /\ exported' =
                  [rows |-> [d \in 1..Len(ids) |-> [f \in 1..Len(columns) |->
                               FreshCell(garbage, wants_conversions, wants_collisions)]],
                   string_tape |-> <<>>]
            /\ cursor' = [doc_idx |-> 1, field_idx |-> 1, step |-> 0]
    /\ UNCHANGED <<impl, store, written, testvars>>

GatherBegin ==
    \E columns \in GatherSpecColumns :
        \E wants_conversions \in BOOLEAN, wants_collisions \in BOOLEAN, garbage \in BOOLEAN :
            gather_begin(GatherKeys, columns, wants_conversions, wants_collisions, garbage)

\* the value the cell under the cursor is exported from
CursorValue ==
    found_value(parse_any(Blob(store[call.ids[cursor.doc_idx]]), internal_format_k),
                call.fields[cursor.field_idx])

\* the stores the export performs on the cell under the cursor
CursorWrites == column_writes(CursorValue, call.types[cursor.field_idx])

\* the next store of the export; after the last store of a cell the cursor
\* moves to the next field, after the last field to the next document, and
\* parse_any runs once per document
GatherWrite ==
    /\ pc = "gathering"
    /\ cursor.doc_idx <= Len(call.ids)
    /\ LET writes == CursorWrites
           last_store == cursor.step + 1 = Len(writes)
           last_field == cursor.field_idx = Len(call.fields)
       IN /\ \E w \in StoreOutcomes(writes[cursor.step + 1]) :
                exported' = apply_write(exported, cursor.doc_idx, cursor.field_idx, w,
                                        call.wants_conversions, call.wants_collisions)
          /\ cursor' = IF ~last_store THEN [cursor EXCEPT !.step = cursor.step + 1]
                       ELSE IF ~last_field
                       THEN [cursor EXCEPT !.field_idx = cursor.field_idx + 1, !.step = 0]
                       ELSE [doc_idx |-> cursor.doc_idx + 1, field_idx |-> 1, step |-> 0]
          /\ parses' = IF cursor.field_idx = 1 /\ cursor.step = 0 THEN parses + 1
                       ELSE parses
    /\ UNCHANGED <<impl, store, before, pc, call, kvLog, tape, error, written, testvars>>

\* after the last document joined_strings is handed out and the call returns
GatherReturn ==
    /\ pc = "gathering"
    /\ cursor.doc_idx > Len(call.ids)
    /\ pc' = "done"
    /\ cursor' = NoCursor
    /\ UNCHANGED <<impl, store, before, call, kvLog, tape, error, parses, exported, written,
                   testvars>>

GatherNext == GatherStore \/ GatherBegin \/ GatherWrite \/ GatherReturn \/ Release

GatherSpec == GatherInit /\ [][GatherNext]_vars

\* the stores of a returned gather add up to the cells of docs_gather
GatherStoresAgree ==
    (pc = "done" /\ call.op = "gather" /\ call.impl = "modality"
        /\ "types" \in DOMAIN call)
    => Bind(docs_gather(store, call.ids,
                        [f \in 1..Len(call.fields) |->
                            Column(call.fields[f], call.types[f])],
                        call.wants_conversions, call.wants_collisions),
            LAMBDA r : exported = r.exported /\ error = r.error
                       /\ parses = r.parses /\ kvLog = r.kvLog)

(***************************************************************************)
(* Properties.                                                             *)
(***************************************************************************)
ReadDone == pc = "done" /\ call.op = "read"
WriteDone == pc = "done" /\ call.op = "write"

\* the call was forwarded to the KV engine as it came
ShortCircuit == call.fields = <<>> /\ call.format = internal_format_k

\* an entry of the store that is absent or MessagePack of one document
IsDocument(entry) ==
    ~entry.present \/ ~is_discarded(from_msgpack(entry.bytes, TRUE))

Distinct(ids) == {ids[i] : i \in 1..Len(ids)}

HasDuplicates(ids) == Cardinality(Distinct(ids)) < Len(ids)

Unsorted(ids) == \E i \in 1..(Len(ids) - 1) : KeyLess(ids[i + 1], ids[i])

Requests(op) == {r \in 1..Len(kvLog) : kvLog[r].op = op}

\* the serialization of what the i-th tuple of the call addresses, taken
\* from the store by the tuple's own id
Addressed(i) ==
    LET doc == parse_any(Blob(store[call.ids[i]]), internal_format_k)
    IN push_back(deref(doc, lookup_field(doc, FieldOf(call.fields, i)), Null),
                 call.format)

\* C1: a docs_read that completes without error over stored documents
\* returns one tape entry per input tuple, and the i-th entry is the
\* serialization of the document or field the i-th tuple addresses, whatever
\* the order and the duplicates of the batch.
C1_OrderPreserved ==
    (/\ ReadDone
     /\ error = NoError
     /\ \A i \in 1..Len(call.ids) : IsDocument(store[call.ids[i]]))
    => /\ Len(tape) = Len(call.ids)
       /\ \A i \in 1..Len(call.ids) : tape[i] = Addressed(i)

\* a read of four tuples, out of order and with a duplicate, of different
\* fields of stored documents, with different entries on its tape
C1_Witness ==
    /\ ReadDone
    /\ call.impl = "modality"
    /\ error = NoError
    /\ Len(call.ids) = MaxBatch
    /\ HasDuplicates(call.ids)
    /\ Unsorted(call.ids)
    /\ call.fields # <<>>
    /\ \A i \in 1..Len(call.ids) : store[call.ids[i]].present /\ IsDocument(store[call.ids[i]])
    /\ \E i, j \in 1..Len(call.ids) : call.ids[i] # call.ids[j] /\ tape[i] # tape[j]
    /\ \A i \in 1..Len(call.ids) : tape[i] = Addressed(i)
\* a docs_read that did not take the short-circuit, or a docs_write with
\* field selectors
PlannedCall ==
    /\ pc = "done"
    /\ \/ call.op = "read" /\ ~ShortCircuit
       \/ call.op = "write" /\ call.impl = "modality" /\ call.fields # <<>>

\* C2 (as amended): a docs_read that parses documents, or a field-targeted
\* docs_write, issues one KV read, and that read requests each distinct
\* (collection, key) pair of the input once; a read without error returns
\* one output per input tuple.
C2_ReadsDistinctEntries ==
    PlannedCall
    => /\ Cardinality(Requests("read")) = 1
       /\ \A r \in Requests("read") :
            /\ Len(kvLog[r].keys) = Cardinality(Distinct(call.ids))
            /\ Distinct(kvLog[r].keys) = Distinct(call.ids)
       /\ (call.op = "read" /\ error = NoError) => Len(tape) = Len(call.ids)

\* C2 (as stated): every batched docs_read requests as many entries from the
\* KV engine as the input has distinct (collection, key) pairs.
C2_EveryReadDeduplicates ==
    ReadDone
    => \A r \in Requests("read") :
            Len(kvLog[r].keys) = Cardinality(Distinct(call.ids))

\* keys a, a, b, a: two entries read, four outputs
C2_Witness ==
    /\ ReadDone
    /\ ~ShortCircuit
    /\ error = NoError
    /\ Len(call.ids) = 4
    /\ call.ids[1] = call.ids[2]
    /\ call.ids[1] = call.ids[4]
    /\ call.ids[1] # call.ids[3]
    /\ \A r \in Requests("read") : Len(kvLog[r].keys) = 2
    /\ Len(tape) = 4

\* a docs_write of the modality with field selectors
FieldWriteDone == WriteDone /\ call.impl = "modality" /\ call.fields # <<>>

StoredBefore(i) == parse_any(Blob(before[call.ids[i]]), internal_format_k)

\* C3: after a docs_write of one tuple with a field selector that addresses
\* a part of the stored document, the stored value is the whole document
\* with that part updated (merge-patched or replaced by the payload), not
\* the updated part alone.
C3_WholeDocumentStored ==
    (/\ FieldWriteDone
     /\ Len(call.ids) = 1
     /\ error = NoError
     /\ call.fields[1] # NullField
     /\ before[call.ids[1]].present
     /\ IsDocument(before[call.ids[1]])
     /\ ~is_discarded(parse(call.contents[1]))
     /\ lookup_field(StoredBefore(1), call.fields[1]).inside)
    => LET doc == StoredBefore(1)
           ptr == lookup_field(doc, call.fields[1]).ptr
           payload == parse(call.contents[1])
           part == IF call.format = "json_merge_patch"
                   THEN merge_patch(at(doc, ptr), payload)
                   ELSE payload
       IN store[call.ids[1]] = push_back(assign(doc, ptr, part), internal_format_k)

\* C4: a docs_write of one tuple in a replacing format, with a field name
\* that is no JSON Pointer and that the stored object does not have, stores
\* the object with the payload added under that name and every other member
\* kept.
C4_AbsentFieldInsertedAtRoot ==
    (/\ FieldWriteDone
     /\ Len(call.ids) = 1
     /\ call.format = "json"
     /\ call.fields[1] # NullField
     /\ call.fields[1][1] # 47
     /\ is_object(StoredBefore(1))
     /\ call.fields[1] \notin DOMAIN StoredBefore(1).m
     /\ ~is_discarded(parse(call.contents[1])))
    => store[call.ids[1]] =
          push_back(Obj(MapPut(StoredBefore(1).m, call.fields[1],
                               parse(call.contents[1]))),
                    internal_format_k)

\* a docs_write of the modality that went through read_modify_write
ReadModifyWriteDone ==
    /\ WriteDone
    /\ call.impl = "modality"
    /\ (call.fields # <<>> \/ call.format \in {"json_patch", "json_merge_patch"})

\* a read_modify_write that returned to its caller
ReadModifyWriteReturned == ReadModifyWriteDone /\ error # Terminated

\* C5: a read_modify_write that returns has issued exactly one KV write; its
\* keys are the distinct (collection, key) pairs of the input, each once,
\* with one value each.
C5_OneWriteOfDistinctKeys ==
    ReadModifyWriteReturned
    => /\ Cardinality(Requests("write")) = 1
       /\ \A w \in Requests("write") :
            /\ Len(kvLog[w].keys) = Cardinality(Distinct(call.ids))
            /\ Distinct(kvLog[w].keys) = Distinct(call.ids)
            /\ Len(kvLog[w].vals) = Len(kvLog[w].keys)

\* two tasks on one document: one entry written
C5_Witness ==
    /\ ReadModifyWriteDone
    /\ Len(call.ids) = 2
    /\ call.ids[1] = call.ids[2]
    /\ \E w \in Requests("write") : Len(kvLog[w].keys) = 1
    /\ store # before

\* the payload of some entry of the call is no JSON text
SomePayloadUnparsable ==
    \E i \in 1..Len(call.contents) : is_discarded(parse(call.contents[i]))

SamePayload(out, payload, format) ==
    IF format = "json"
    THEN ~is_discarded(parse(payload)) /\ parse(out) = parse(payload)
    ELSE out = payload

\* C7: a whole-document docs_read of ids whose last write was a
\* whole-document docs_write in the format of the read succeeds and returns
\* payloads equal to the written ones.
C7_WriteThenRead ==
    (/\ ReadDone
     /\ call.fields = <<>>
     /\ \A i \in 1..Len(call.ids) : written[call.ids[i]].format = call.format)
    => /\ error = NoError
       /\ Len(tape) = Len(call.ids)
       /\ \A i \in 1..Len(call.ids) :
            SamePayload(tape[i].bytes, written[call.ids[i]].bytes, call.format)

\* C8: every value in the store is absent or the MessagePack of exactly one
\* document.
C8_StoredValuesAreDocuments == \A id \in DocumentIds : IsDocument(store[id])

C10_ReadsBeforeWrites ==
    pc = "done"
    => /\ \A i, j \in 1..Len(kvLog) :
            (kvLog[i].op = "write" /\ kvLog[j].op = "read") => j < i
       /\ ReadModifyWriteReturned
            => [i \in 1..Len(kvLog) |-> kvLog[i].op] = <<"read", "write">>
       /\ (WriteDone /\ call.fields = <<>> /\ call.format = "json")
            => Requests("read") = {}
       /\ call.op \in {"read", "gist", "gather"}
            => Requests("write") = {} /\ store = before

\* a read_modify_write that read, then wrote and changed the store
C10_Witness ==
    /\ ReadModifyWriteDone
    /\ Len(kvLog) = 2
    /\ kvLog[1].op = "read"
    /\ kvLog[2].op = "write"
    /\ store # before

\* the stored value of some id of the call is no MessagePack document
SomeStoredUnparsable ==
    \E i \in 1..Len(call.ids) : ~IsDocument(before[call.ids[i]])

\* C11: a read_modify_write in which the parsing of a stored document or of
\* an update payload fails ends with an error, issues no KV write and leaves
\* the store as it was.
C11_FailedUpdateWritesNothing ==
    (/\ ReadModifyWriteDone
     /\ SomePayloadUnparsable \/ SomeStoredUnparsable)
    => /\ error # NoError
       /\ Requests("write") = {}
       /\ store = before

\* C12: a docs_read or docs_gather of the modality that ends with an error
\* hands no output to the caller: no tape entry of the tasks before the
\* failing one, no columns and no bitmaps.
C12_ErrorExposesNoOutput ==
    (/\ pc = "done"
     /\ call.impl = "modality"
     /\ call.op \in {"read", "gather"}
     /\ error # NoError)
    => /\ tape = <<>>
       /\ exported = NoExport

\* the document stored under the i-th id of the call
StoredAfter(i) == parse_any(Blob(store[call.ids[i]]), internal_format_k)

\* C13: a docs_write of one tuple in JSON Patch or JSON Merge Patch whose
\* field selector addresses a path the stored document does not have
\* reports no error and leaves the stored document as it was.
C13_AbsentPathPatchIsNoOp ==
    (/\ FieldWriteDone
     /\ Len(call.ids) = 1
     /\ call.format \in {"json_patch", "json_merge_patch"}
     /\ call.fields[1] # NullField
     /\ before[call.ids[1]].present
     /\ IsDocument(before[call.ids[1]])
     /\ ~is_discarded(parse(call.contents[1]))
     /\ ~lookup_field(StoredBefore(1), call.fields[1]).inside)
    => /\ error = NoError
       /\ StoredAfter(1) = StoredBefore(1)

\* C14: after a docs_write of one tuple in JSON Merge Patch, the same
\* docs_write once more (same key, same field selector, same patch) leaves
\* the store as the first one left it.
C14_MergePatchIdempotent ==
    (/\ WriteDone
     /\ call.impl = "modality"
     /\ call.format = "json_merge_patch"
     /\ Len(call.ids) = 1
     /\ error = NoError
     /\ ~is_discarded(parse(call.contents[1])))
    => docs_write(store, call.ids, call.fields, call.contents, call.format, TRUE).store
       = store

(***************************************************************************)
(* Properties of GatherSpec.                                               *)
(***************************************************************************)
GatherRunning == pc = "gathering"
GatherReturned ==
    pc = "done" /\ call.op = "gather" /\ "types" \in DOMAIN call /\ error = NoError

\* the cells whose export is complete
CellsDone ==
    IF GatherReturned
    THEN {<<d, f>> : d \in 1..Len(call.ids), f \in 1..Len(call.fields)}
    ELSE IF GatherRunning
    THEN {c \in {<<d, f>> : d \in 1..Len(call.ids), f \in 1..Len(call.fields)} :
            c[1] < cursor.doc_idx \/ (c[1] = cursor.doc_idx /\ c[2] < cursor.field_idx)}
    ELSE {}

CellAt(c) == exported.rows[c[1]][c[2]]

\* the value the cell is exported from
CellSource(c) ==
    found_value(parse_any(Blob(store[call.ids[c[1]]]), internal_format_k),
                call.fields[c[2]])

\* the decimal text of a number
TextOf(n) == IF n < 0 THEN <<45>> \o Digits(0 - n) ELSE Digits(n)

\* the text a string column holds for a value
CoercedText(value) ==
    CASE value.t = "str" -> value.s
      [] value.t = "bin" -> value.x
      [] value.t = "bool" -> IF value.b THEN true_k ELSE false_k
      [] value.t = "int" -> TextOf(value.i)
      [] value.t = "uint" -> TextOf(value.u)
      [] value.t = "float" -> printf_f(value)
      [] OTHER -> <<>>

\* the number a scalar column of the type holds for a number
CoercedNumber(n, type) ==
    IF type = "bool" THEN {IF n # 0 THEN 1 ELSE 0}
    ELSE IF type = "i32" THEN {n}
    ELSE {m \in -(2 ^ 15)..(2 ^ 15) :
            /\ (m - n) % (2 ^ Width(type)) = 0
            /\ IF is_signed(type)
               THEN m >= -(2 ^ (Width(type) - 1)) /\ m < 2 ^ (Width(type) - 1)
               ELSE m >= 0 /\ m < 2 ^ Width(type)}

\* the payload of the cell is the value of the source, coerced to the type
HoldsCoerced(cell, value, type, string_tape) ==
    IF value.t \notin {"str", "bin", "bool", "int", "uint", "float"} THEN FALSE
    ELSE IF type = "str"
    THEN /\ cell.off # <<>>
         /\ cell.len # <<>>
         /\ Bind(CoercedText(value), LAMBDA text :
               /\ cell.len[1] \in {Len(text), Len(text) + 1}
               /\ cell.off[1] + cell.len[1] <= Len(string_tape)
               /\ SubSeq(string_tape, cell.off[1] + 1, cell.off[1] + Len(text)) = text)
    ELSE /\ cell.scalar # <<>>
         /\ CASE value.t = "bin" -> cell.scalar = value.x
              [] value.t = "bool" -> cell.scalar = <<IF value.b THEN 1 ELSE 0>>
              [] value.t = "int" -> cell.scalar[1] \in CoercedNumber(value.i, type)
              [] value.t = "uint" -> cell.scalar[1] \in CoercedNumber(value.u, type)
              [] value.t = "float" ->
                    IF type = "bool" THEN cell.scalar[1] \in float_cast(type, value)
                    ELSE cell.scalar[1] = Wrapped(type, value)
              [] value.t = "str" ->
                    IF type = "bool"
                    THEN value.s = (IF cell.scalar[1] = 1 THEN true_k ELSE false_k)
                    ELSE value.s = TextOf(cell.scalar[1])

\* C15: in every cell docs_gather has finished exporting, the validity bit
\* and the collision bit are not both set, and a cell whose validity bit is
\* set holds the value of its source coerced to the type of the column: the
\* scalar, or the offset and length of its text in the joined strings.
C15_GatherCoherent ==
    \A c \in CellsDone :
        /\ ~(CellAt(c).bits.validities /\ CellAt(c).bits.collisions)
        /\ CellAt(c).bits.validities =>
              HoldsCoerced(CellAt(c), CellSource(c), call.types[c[2]],
                           exported.string_tape)

\* the same but for the payload of a cell whose source is a float
GatherCoherentUnlessFloat ==
    \A c \in CellsDone :
        /\ ~(CellAt(c).bits.validities /\ CellAt(c).bits.collisions)
        /\ (CellAt(c).bits.validities /\ CellSource(c).t # "float") =>
              HoldsCoerced(CellAt(c), CellSource(c), call.types[c[2]],
                           exported.string_tape)

\* a gather that asked for both bitmaps has returned a string column with
\* a valid cell past the first text of the joined strings and a collided cell
C15_Witness ==
    /\ GatherReturned
    /\ call.wants_conversions /\ call.wants_collisions
    /\ call.types = <<"str">>
    /\ \E c \in CellsDone : CellAt(c).bits.validities /\ CellAt(c).off # <<0>>
    /\ \E c \in CellsDone : CellAt(c).bits.collisions

\* a gather of "/x" as i32 with both bitmaps has returned, over the stored
\* documents {"x":"42"}, {"x":42}, {"x":true}, {"x":{}}
GatherOfExample ==
    /\ GatherReturned
    /\ call.ids = GatherKeys
    /\ call.fields = <<FieldPointerX>>
    /\ call.types = <<"i32">>
    /\ call.wants_conversions /\ call.wants_collisions
    /\ [i \in 1..Len(GatherKeys) |-> store[GatherKeys[i]]]
          = <<Present(MsgpackXStr42), Present(MsgpackX42), Present(MsgpackXTrue),
              Present(MsgpackXObj)>>

BitsOfColumn(name) == [d \in 1..Len(call.ids) |-> exported.rows[d][1].bits[name]]
ScalarsOfColumn(n) == [d \in 1..n |-> exported.rows[d][1].scalar]

\* C16 (as stated): docs_gather over {"x":"42"}, {"x":42}, {"x":true},
\* {"x":{}} with field "/x" and type i32 yields validity 1,1,1,0, conversion
\* 1,0,1,0, collision 0,0,0,1 and the scalars 42, 42, 1 in the valid cells.
C16_GatherOfExampleAsStated ==
    GatherOfExample =>
        /\ BitsOfColumn("validities") = <<TRUE, TRUE, TRUE, FALSE>>
        /\ BitsOfColumn("conversions") = <<TRUE, FALSE, TRUE, FALSE>>
        /\ BitsOfColumn("collisions") = <<FALSE, FALSE, FALSE, TRUE>>
        /\ ScalarsOfColumn(3) = <<<<42>>, <<42>>, <<1>>>>

\* C16 (amended): the same gather yields validity 1,1,1,0, conversion
\* 1,1,1,0, collision 0,0,0,1 and the scalars 42, 42, 1: the stored 42 is an
\* unsigned number, which an i32 column counts as converted.
C16_GatherOfExampleConverts ==
    GatherOfExample =>
        /\ BitsOfColumn("validities") = <<TRUE, TRUE, TRUE, FALSE>>
        /\ BitsOfColumn("conversions") = <<TRUE, TRUE, TRUE, FALSE>>
        /\ BitsOfColumn("collisions") = <<FALSE, FALSE, FALSE, TRUE>>
        /\ ScalarsOfColumn(3) = <<<<42>>, <<42>>, <<1>>>>

\* the gather of the example has returned
C16_Witness == GatherOfExample /\ exported.rows[4][1].scalar = <<>>

\* the cell under the cursor of a running gather
CursorCell == exported.rows[cursor.doc_idx][cursor.field_idx]

\* the payload of the cell is in place: the scalar, or the length and the
\* text it counts in the joined strings
PayloadStored(cell, type, string_tape) ==
    IF type = "str"
    THEN cell.off # <<>> /\ cell.len # <<>> /\ cell.off[1] + cell.len[1] <= Len(string_tape)
    ELSE cell.scalar # <<>>

\* the stores to the validity bit that the export of the cell under the
\* cursor has performed so far
ValidityStoresDone ==
    IF GatherRunning /\ cursor.doc_idx <= Len(call.ids)
    THEN {i \in 1..cursor.step : CursorWrites[i].ref = "valid"}
    ELSE {}

\* C17: in the stores of docs_gather to a cell, the stores to the
\* conversion and the collision bit precede the store to the validity bit,
\* and when the validity bit is set the payload of the cell is already
\* stored, whatever the type of the source.
C17_ValidityStoredLast ==
    \A i \in ValidityStoresDone :
        /\ \A j \in 1..Len(CursorWrites) :
              CursorWrites[j].ref \in {"convert", "collide"} => j < i
        /\ CursorWrites[i].val =>
              PayloadStored(CursorCell, call.types[cursor.field_idx], exported.string_tape)

\* the same for the sources that are not binary
ValidityStoredLastUnlessBinary ==
    (GatherRunning /\ cursor.doc_idx <= Len(call.ids) /\ CursorValue.t # "bin")
    => C17_ValidityStoredLast

(***************************************************************************)
(* ukv_docs_gist over stored documents with nested members: GistSpec.      *)
(***************************************************************************)
MaxGistBatch == 3    \* longest batch of a gist

GistKeys == {GatherKeys[1], GatherKeys[2], GatherKeys[3]}

MsgpackA1 == <<129, 161, 97, 1>>                                 \* {"a":1}
MsgpackA2BC3 == <<130, 161, 97, 2, 161, 98, 129, 161, 99, 3>>    \* {"a":2,"b":{"c":3}}
MsgpackBArr == <<129, 161, 98, 146, 7, 129, 161, 99, 195>>       \* {"b":[7,{"c":true}]}

GistPayloads == {MsgpackA1, MsgpackA2BC3, MsgpackBArr, MsgpackXObj}

GistStore ==
    \E id \in GistKeys, payload \in GistPayloads :
        ukv_docs_write(<<id>>, <<>>, <<payload>>, internal_format_k, TRUE)

GistCall == \E ids \in Batches(MaxGistBatch, GistKeys) : ukv_docs_gist(ids)

GistNext == GistStore \/ GistCall \/ Release

GistSpec == GatherInit /\ [][GistNext]_vars

(***************************************************************************)
(* Properties of GistSpec.                                                 *)
(***************************************************************************)
GistDone == pc = "done" /\ call.op = "gist" /\ error = NoError

\* every id of the gist has a stored document
GistOfDocuments == GistDone /\ \A i \in 1..Len(call.ids) : store[call.ids[i]].present

GistDocument(i) == parse_any(Blob(store[call.ids[i]]), internal_format_k)

PathTokens == {<<97>>, <<98>>, <<99>>, <<120>>, <<48>>, <<49>>}
PathsOfDepth(n) ==
    {Concat([i \in 1..n |-> <<47>> \o tokens[i]]) : tokens \in [1..n -> PathTokens]}

\* the JSON-Pointers of up to three of the tokens, and the root
CandidatePaths == {<<>>} \cup PathsOfDepth(1) \cup PathsOfDepth(2) \cup PathsOfDepth(3)

\* a value without parts: a primitive, or an empty object or array
IsLeaf(json) ==
    \/ is_primitive(json)
    \/ json.t = "obj" /\ DOMAIN json.m = {}
    \/ json.t = "arr" /\ json.a = <<>>

\* the document has a leaf at the JSON-Pointer
HasLeafAt(json, path) ==
    Bind(IF path = <<>> THEN <<>> ELSE json_ptr_t(path), LAMBDA ptr :
         contains(json, ptr) /\ IsLeaf(at(json, ptr)))

LeafPathsOfBatch ==
    Bind([i \in 1..Len(call.ids) |-> GistDocument(i)], LAMBDA docs :
         {path \in CandidatePaths : \E i \in 1..Len(docs) : HasLeafAt(docs[i], path)})

Path_a == <<47, 97>>              \* "/a"
Path_b_c == <<47, 98, 47, 99>>    \* "/b/c"

GistOfExample ==
    /\ GistDone
    /\ Len(call.ids) = 2
    /\ store[call.ids[1]] = Present(MsgpackA1)
    /\ store[call.ids[2]] = Present(MsgpackA2BC3)

\* C18: docs_gist over stored documents returns the set of the JSON-Pointer
\* paths of the leaves of those documents, a path once however many of the
\* documents have it, and counts its elements; for {"a":1} and
\* {"a":2,"b":{"c":3}} that is {"/a", "/b/c"} with a count of 2.
C18_GistIsSetOfLeafPaths ==
    /\ GistOfDocuments =>
          Bind(LeafPathsOfBatch, LAMBDA leaf_paths :
               /\ exported.paths \subseteq CandidatePaths
               /\ exported.paths = leaf_paths
               /\ exported.fields_count = Cardinality(leaf_paths))
    /\ GistOfExample =>
          /\ exported.paths = {Path_a, Path_b_c}
          /\ exported.fields_count = 2

\* the gist of the example has returned
C18_Witness == GistOfExample /\ Path_b_c \in exported.paths

(***************************************************************************)
(* Transactions of the KV engine.  The engine is not part of the sources;  *)
(* it is modelled from the specification: a transaction buffers its writes *)
(* and watches every key it reads or writes, a commit applies the writes   *)
(* at once and is refused when a watched key was committed by another      *)
(* transaction in between.                                                 *)
(***************************************************************************)
NoTransaction == [writes |-> <<>>, watched |-> <<>>]

\* a transaction that watches nothing
Watch_nothing(txn, ks) == txn

\* the keys get watched at the version they have now, unless watched already
Watch(txn, ks) ==
    [txn EXCEPT !.watched =
        [k \in DOMAIN txn.watched \cup {ks[i] : i \in 1..Len(ks)} |->
            IF k \in DOMAIN txn.watched THEN txn.watched[k] ELSE versions[k]]]

RECURSIVE Buffer(_, _, _)
\* the writes of a batch in its order: a later entry of a key replaces an
\* earlier one
Buffer(writes, ks, entries) ==
    IF ks = <<>> THEN writes
    ELSE Buffer([k \in DOMAIN writes \cup {ks[1]} |->
                    IF k = ks[1] THEN entries[1] ELSE writes[k]],
                Tail(ks), Tail(entries))

\* kv_write inside a transaction
txn_write(txn, ks, entries) ==
    [Watch(txn, ks) EXCEPT !.writes = Buffer(txn.writes, ks, entries)]

\* kv_read inside a transaction: the entries, its own writes included
txn_read(txn, ks) ==
    [i \in 1..Len(ks) |->
        IF ks[i] \in DOMAIN txn.writes THEN txn.writes[ks[i]] ELSE store[ks[i]]]

\* a commit that checks nothing
can_commit_unchecked(txn) == TRUE

\* no watched key was committed since the transaction watches it
can_commit(txn) == \A k \in DOMAIN txn.watched : versions[k] = txn.watched[k]

\* the commit of a transaction that passed the check: its writes at once
txn_commit(txn, entry) ==
    /\ store' = [k \in DOMAIN store |->
                    IF k \in DOMAIN txn.writes THEN txn.writes[k] ELSE store[k]]
    /\ versions' = [k \in DOMAIN versions |->
                       IF k \in DOMAIN txn.writes THEN Len(committed) + 1
                       ELSE versions[k]]
    /\ committed' = Append(committed, entry)

(***************************************************************************)
(* insert_atomic_isolated of transaction_stress_test.cpp: AtomicSpec.      *)
(* The array keys is declared in the function and captured by reference,   *)
(* so the threads share it; std::iota stores into it element by element.   *)
(***************************************************************************)
threads_count_ak == 2
batch_size_ak == 2
count_batches == 2

AtomicThreads == 1..threads_count_ak
AtomicKeys == 0..(count_batches * batch_size_ak - 1)

docvars == <<impl, before, pc, call, kvLog, tape, error, parses, exported, written, cursor>>

insert_atomic_isolated ==
    /\ impl = "modality"
    /\ store = [k \in AtomicKeys |-> Missing]
    /\ before = [k \in AtomicKeys |-> Missing]
    /\ pc = "idle"
    /\ call = NoCall
    /\ kvLog = <<>>
    /\ tape = <<>>
    /\ error = NoError
    /\ parses = 0
    /\ exported = NoExport
    /\ written = [k \in AtomicKeys |-> NotWritten]
    /\ cursor = NoCursor
    /\ threads = [t \in AtomicThreads |->
                    [pc |-> "transact", idx_batch |-> 0, filled |-> 0,
                     txn |-> NoTransaction]]
    /\ shared_keys = [i \in 1..batch_size_ak |-> 0]
    /\ versions = [k \in AtomicKeys |-> 0]
    /\ committed = <<>>
    /\ operations = <<>>

\* db.transact(): a new transaction, at the start of every attempt
AtomicTransact(t) ==
    /\ threads[t].pc = "transact"
    /\ threads' = [threads EXCEPT ![t].pc = "iota", ![t].filled = 0,
                                  ![t].txn = NoTransaction]
    /\ UNCHANGED <<store, shared_keys, versions, committed, operations, docvars>>

\* std::iota: the next element of the shared keys
AtomicIota(t) ==
    /\ threads[t].pc = "iota"
    /\ LET first_key_in_batch == threads[t].idx_batch * batch_size_ak
           i == threads[t].filled
       IN /\ shared_keys' = [shared_keys EXCEPT ![i + 1] = first_key_in_batch + i]
          /\ threads' = [threads EXCEPT ![t].filled = i + 1,
                                        ![t].pc = IF i + 1 = batch_size_ak THEN "assign"
                                                  ELSE "iota"]
    /\ UNCHANGED <<store, versions, committed, operations, docvars>>

\* the value of a thread for a batch, as the eight bytes of num_value
AtomicValue(t, idx_batch) ==
    Present(write_scalar(idx_batch * threads_count_ak + (t - 1), 8))

\* collection[keys] = value: the keys as the shared array holds them now
AtomicAssign(t) ==
    /\ threads[t].pc = "assign"
    /\ threads' = [threads EXCEPT
                      ![t].pc = "commit",
                      ![t].txn = txn_write(threads[t].txn, shared_keys,
                                           [i \in 1..batch_size_ak |->
                                               AtomicValue(t, threads[t].idx_batch)])]
    /\ UNCHANGED <<store, shared_keys, versions, committed, operations, docvars>>

\* txn.commit(): on success the thread goes on to its next batch, otherwise
\* it tries the batch again
AtomicCommit(t) ==
    /\ threads[t].pc = "commit"
    /\ IF can_commit(threads[t].txn)
       THEN /\ txn_commit(threads[t].txn,
                          [thread |-> t, idx_batch |-> threads[t].idx_batch,
                           keys |-> DOMAIN threads[t].txn.writes])
            /\ threads' = [threads EXCEPT
                              ![t].idx_batch = threads[t].idx_batch + 1,
                              ![t].pc = IF threads[t].idx_batch + 1 = count_batches
                                        THEN "joined" ELSE "transact"]
       ELSE /\ threads' = [threads EXCEPT ![t].pc = "transact"]
            /\ UNCHANGED <<store, versions, committed>>
    /\ UNCHANGED <<shared_keys, operations, docvars>>

AtomicNext ==
    \E t \in AtomicThreads :
        AtomicTransact(t) \/ AtomicIota(t) \/ AtomicAssign(t) \/ AtomicCommit(t)

AtomicSpec == insert_atomic_isolated /\ [][AtomicNext]_vars

(***************************************************************************)
(* Properties of AtomicSpec.                                               *)
(***************************************************************************)
AllJoined ==
    /\ DOMAIN threads = AtomicThreads
    /\ \A t \in AtomicThreads : threads[t].pc = "joined"

KeysOfBatch(idx_batch) ==
    {idx_batch * batch_size_ak + i : i \in 0..(batch_size_ak - 1)}

BatchHoldsOneValue(idx_batch) ==
    \A k1 \in KeysOfBatch(idx_batch), k2 \in KeysOfBatch(idx_batch) : store[k1] = store[k2]

\* C19: after the threads of insert_atomic_isolated have finished, every
\* batch of consecutive keys holds one value on all of its keys.
C19_BatchesHoldOneValue ==
    AllJoined => \A idx_batch \in 0..(count_batches - 1) : BatchHoldsOneValue(idx_batch)

\* the same for the runs in which every transaction wrote the keys of its
\* own batch
BatchesHoldOneValueUnlessTorn ==
    (AllJoined /\ \A c \in 1..Len(committed) :
                     committed[c].keys = KeysOfBatch(committed[c].idx_batch))
    => \A idx_batch \in 0..(count_batches - 1) : BatchHoldsOneValue(idx_batch)

(***************************************************************************)
(* serializable_transactions of transaction_stress_test.cpp: SerialSpec.   *)
(* One thread runs task_insert, one task_remove and one task_select.  The  *)
(* time of an operation is read after its commit has returned; operations  *)
(* holds the logged operations in the order of those times, which is the   *)
(* order the test sorts them into.                                         *)
(***************************************************************************)
max_batch_size_ak == 2
iteration_count == 1
biggest_key == 1

SerialTasks == <<"insert_k", "remove_k", "select_k">>
SerialThreads == 1..Len(SerialTasks)
SerialKeys == 0..biggest_key
SerialValues == {1, 2}

\* random_fill: any keys, any values
SerialBatches == UNION {[1..n -> SerialKeys] : n \in 1..max_batch_size_ak}
SerialFill(n) == [1..n -> SerialValues]

operation_t(type, ks, values) == [type |-> type, keys |-> ks, values |-> values]
NoOperation == operation_t("none", <<>>, <<>>)

serializable_transactions ==
    /\ impl = "modality"
    /\ store = [k \in SerialKeys |-> Missing]
    /\ before = [k \in SerialKeys |-> Missing]
    /\ pc = "idle"
    /\ call = NoCall
    /\ kvLog = <<>>
    /\ tape = <<>>
    /\ error = NoError
    /\ parses = 0
    /\ exported = NoExport
    /\ written = [k \in SerialKeys |-> NotWritten]
    /\ cursor = NoCursor
    /\ threads = [t \in SerialThreads |->
                    [pc |-> "transact", iteration_idx |-> 0, operation |-> NoOperation,
                     txn |-> NoTransaction, status |-> TRUE]]
    /\ shared_keys = <<>>
    /\ versions = [k \in SerialKeys |-> 0]
    /\ committed = <<>>
    /\ operations = <<>>

\* the eight bytes of a value, and the value a select notes for an entry:
\* the number in its bytes, or 0 when the key has no value
ValueEntry(v) == Present(write_scalar(v, 8))
NotedValue(entry) == IF entry.present /\ entry.bytes # <<>> THEN entry.bytes[1] ELSE 0

\* the thread has iterations left
Iterating(t) == threads[t].pc = "transact" /\ threads[t].iteration_idx < iteration_count

\* task_insert up to the commit: a random batch is assigned in a transaction
TaskInsert(t) ==
    /\ SerialTasks[t] = "insert_k"
    /\ Iterating(t)
    /\ \E ks \in SerialBatches : \E values \in SerialFill(Len(ks)) :
          threads' = [threads EXCEPT
                         ![t].pc = "commit",
                         ![t].operation = operation_t("insert_k", ks, values),
                         ![t].txn = txn_write(NoTransaction, ks,
                                              [i \in 1..Len(ks) |-> ValueEntry(values[i])])]
    /\ UNCHANGED <<store, shared_keys, versions, committed, operations, docvars>>

\* task_remove up to the commit: a random batch is erased in a transaction
TaskRemove(t) ==
    /\ SerialTasks[t] = "remove_k"
    /\ Iterating(t)
    /\ \E ks \in SerialBatches :
          threads' = [threads EXCEPT
                         ![t].pc = "commit",
                         ![t].operation = operation_t("remove_k", ks, <<>>),
                         ![t].txn = txn_write(NoTransaction, ks,
                                              [i \in 1..Len(ks) |-> Missing])]
    /\ UNCHANGED <<store, shared_keys, versions, committed, operations, docvars>>

\* task_select up to the commit: a random batch is read in a transaction;
\* the values are noted in the operation
TaskSelect(t) ==
    /\ SerialTasks[t] = "select_k"
    /\ Iterating(t)
    /\ \E ks \in SerialBatches :
          threads' = [threads EXCEPT
                         ![t].pc = "commit",
                         ![t].operation =
                            operation_t("select_k", ks,
                                        Bind(txn_read(NoTransaction, ks), LAMBDA retrieved :
                                             [i \in 1..Len(ks) |-> NotedValue(retrieved[i])])),
                         ![t].txn = Watch(NoTransaction, ks)]
    /\ UNCHANGED <<store, shared_keys, versions, committed, operations, docvars>>

\* txn.commit()
TaskCommit(t) ==
    /\ threads[t].pc = "commit"
    /\ IF can_commit(threads[t].txn)
       THEN /\ txn_commit(threads[t].txn, threads[t].operation)
            /\ threads' = [threads EXCEPT ![t].pc = "now", ![t].status = TRUE]
       ELSE /\ threads' = [threads EXCEPT ![t].pc = "now", ![t].status = FALSE]
            /\ UNCHANGED <<store, versions, committed>>
    /\ UNCHANGED <<shared_keys, operations, docvars>>

\* time = now(), and the operation is logged unless the commit failed
TaskNow(t) ==
    /\ threads[t].pc = "now"
    /\ operations' = IF threads[t].status THEN Append(operations, threads[t].operation)
                     ELSE operations
    /\ threads' = [threads EXCEPT
                      ![t].iteration_idx = threads[t].iteration_idx + 1,
                      ![t].pc = IF threads[t].iteration_idx + 1 = iteration_count
                                THEN "joined" ELSE "transact",
                      ![t].operation = NoOperation,
                      ![t].txn = NoTransaction]
    /\ UNCHANGED <<store, shared_keys, versions, committed, docvars>>

SerialNext ==
    \E t \in SerialThreads :
        TaskInsert(t) \/ TaskRemove(t) \/ TaskSelect(t) \/ TaskCommit(t) \/ TaskNow(t)

SerialSpec == serializable_transactions /\ [][SerialNext]_vars

(***************************************************************************)
(* Properties of SerialSpec.                                               *)
(***************************************************************************)
RECURSIVE Simulation(_, _, _)
\* the operations one at a time on db_simulation: its entries in the end,
\* and whether every select found the values noted in it
Simulation(ops, db_simulation, matched) ==
    IF ops = <<>> THEN [db |-> db_simulation, matched |-> matched]
    ELSE Bind(Head(ops), LAMBDA operation :
         IF operation.type = "select_k"
         THEN Simulation(Tail(ops), db_simulation,
                         matched /\ \A i \in 1..Len(operation.keys) :
                             NotedValue(db_simulation[operation.keys[i]]) = operation.values[i])
         ELSE Simulation(Tail(ops),
                         Buffer(db_simulation, operation.keys,
                                [i \in 1..Len(operation.keys) |->
                                    IF operation.type = "insert_k"
                                    THEN ValueEntry(operation.values[i]) ELSE Missing]),
                         matched))

EmptyDatabase == [k \in SerialKeys |-> Missing]
PresentKeys(db) == {k \in DOMAIN db : db[k].present}

\* the operations reproduce the selects and the present keys of the run
Reproduces(ops) ==
    Bind(Simulation(ops, EmptyDatabase, TRUE), LAMBDA simulation :
         simulation.matched /\ PresentKeys(simulation.db) = PresentKeys(store))

SerialJoined ==
    /\ DOMAIN threads = SerialThreads
    /\ \A t \in SerialThreads : threads[t].pc = "joined"

\* C20: the committed insert, remove and select transactions, run one at a
\* time in the order of their commits on an empty database, reproduce the
\* values every committed select observed and end with the present keys of
\* the concurrent run; this holds after every commit, and so at the end.
C20_CommitOrderReproduces == Reproduces(committed)

\* the three threads have finished after a select that observed a value
\* committed next to a remove of the same key
C20_Witness ==
    /\ SerialJoined
    /\ Len(committed) = 3
    /\ \E s \in 1..3 : committed[s].type = "select_k" /\ \E i \in 1..Len(committed[s].values) :
                            committed[s].values[i] # 0
    /\ \E r \in 1..3 : committed[r].type = "remove_k" /\ r > 1

\* the same replay in the order of the logged times
LoggedOrderReproduces == SerialJoined => Reproduces(operations)

(***************************************************************************)
(* ukv_docs_write inside transactions: RaceSpec.  One caller updates       *)
(* documents with read_modify_write in a transaction, another replaces     *)
(* documents with replace_docs in a transaction; each passes its           *)
(* transaction to the ukv_read and ukv_write of the call and commits       *)
(* afterwards.                                                             *)
(***************************************************************************)
MaxRaceBatch == 2

RaceCallers == <<"read_modify_write", "replace_docs">>
RaceThreads == 1..Len(RaceCallers)

\* the stored document {"a":{"b":1,"c":2}}
StoredAB == Present(write_msgpack(parse(JsonAB)))

\* the entries a transaction reads: its own writes over the store
txn_view(txn) ==
    [k \in DOMAIN store |-> IF k \in DOMAIN txn.writes THEN txn.writes[k] ELSE store[k]]

RECURSIVE in_transaction(_, _)
\* the KV requests of a call that was handed the transaction (.transaction =
\* c_txn of ukv_read_t and ukv_write_t): reads watch, writes are buffered
in_transaction(txn, requests) ==
    IF requests = <<>> THEN txn
    ELSE in_transaction(IF Head(requests).op = "read"
                        THEN Watch(txn, Head(requests).keys)
                        ELSE txn_write(txn, Head(requests).keys, Head(requests).vals),
                        Tail(requests))

RaceInit ==
    /\ impl = "modality"
    /\ store \in [WrittenIds -> {Missing, StoredAB}]
    /\ before = store
    /\ pc = "idle"
    /\ call = NoCall
    /\ kvLog = <<>>
    /\ tape = <<>>
    /\ error = NoError
    /\ parses = 0
    /\ exported = NoExport
    /\ written = [id \in WrittenIds |-> NotWritten]
    /\ cursor = NoCursor
    /\ threads = [t \in RaceThreads |->
                    [pc |-> "transact", txn |-> NoTransaction, status |-> "none",
                     error |-> NoError, keys |-> {}, began |-> 0, tried |-> 0]]
    /\ shared_keys = <<>>
    /\ versions = [id \in WrittenIds |-> 0]
    /\ committed = <<>>
    /\ operations = <<>>

\* the keys of the KV requests of a call
RequestedKeys(requests) ==
    UNION {{requests[i].keys[j] : j \in 1..Len(requests[i].keys)} : i \in 1..Len(requests)}

\* the call returned: its requests went through the transaction
RaceReturns(t, r) ==
    /\ threads' = [threads EXCEPT ![t].pc = "commit",
                                  ![t].txn = in_transaction(NoTransaction, r.kvLog),
                                  ![t].error = r.error,
                                  ![t].keys = RequestedKeys(r.kvLog),
                                  ![t].began = Len(committed)]
    /\ UNCHANGED <<store, shared_keys, versions, committed, operations, docvars>>

\* ukv_docs_write with fields or a merge-patch, in a transaction
RaceReadModifyWrite(t) ==
    /\ RaceCallers[t] = "read_modify_write"
    /\ threads[t].pc = "transact"
    /\ \E ids \in Batches(MaxRaceBatch, WrittenIds), format \in {"json", "json_merge_patch"} :
        \E fields \in FieldSeqs(Len(ids)), contents \in Contents(Len(ids), format) :
            /\ has_fields(fields) \/ format = "json_merge_patch"
            /\ RaceReturns(t, docs_write(txn_view(NoTransaction), ids, fields, contents,
                                         format, TRUE))

\* ukv_docs_write of whole JSON documents, in a transaction
RaceReplaceDocs(t) ==
    /\ RaceCallers[t] = "replace_docs"
    /\ threads[t].pc = "transact"
    /\ \E ids \in Batches(MaxRaceBatch, WrittenIds) :
        \E contents \in Contents(Len(ids), "json") :
            RaceReturns(t, docs_write(txn_view(NoTransaction), ids, <<>>, contents,
                                      "json", TRUE))

\* the commit of the transaction: refused on a conflict
RaceCommit(t) ==
    /\ threads[t].pc = "commit"
    /\ IF can_commit(threads[t].txn)
       THEN /\ txn_commit(threads[t].txn,
                          [thread |-> t, keys |-> DOMAIN threads[t].txn.writes])
            /\ threads' = [threads EXCEPT ![t].pc = "done", ![t].status = "committed",
                                          ![t].tried = Len(committed) + 1]
       ELSE /\ threads' = [threads EXCEPT ![t].pc = "done", ![t].status = "conflict",
                                          ![t].tried = Len(committed)]
            /\ UNCHANGED <<store, versions, committed>>
    /\ UNCHANGED <<shared_keys, operations, docvars>>

RaceNext ==
    \E t \in RaceThreads : RaceReadModifyWrite(t) \/ RaceReplaceDocs(t) \/ RaceCommit(t)

RaceSpec == RaceInit /\ [][RaceNext]_vars

(***************************************************************************)
(* Properties of RaceSpec.                                                 *)
(***************************************************************************)
RaceDone ==
    /\ DOMAIN threads = RaceThreads
    /\ \A t \in RaceThreads : threads[t].pc = "done"

\* the keys the transaction of a thread read or wrote
TouchedKeys(t) == threads[t].keys

\* u committed a write to a key of t between the call of t and its commit
RacedWith(t, u) ==
    /\ threads[u].status = "committed"
    /\ TouchedKeys(t) \cap DOMAIN threads[u].txn.writes # {}
    /\ threads[t].began < threads[u].tried
    /\ threads[u].tried <= threads[t].tried

\* C21: when one of the two transactions commits a write to a key of the
\* other between that other's call (the read of read_modify_write, the
\* write of replace_docs) and its commit, the commit of the other is
\* refused with a conflict, so exactly one of the two commits, and the keys
\* of the committed transaction hold its documents.
C21_ConflictingCommitRefused ==
    \A t \in RaceThreads, u \in RaceThreads :
        (RaceDone /\ t # u /\ RacedWith(t, u))
        => /\ threads[t].status = "conflict"
           /\ threads[u].status = "committed"
           /\ \A k \in DOMAIN threads[u].txn.writes : store[k] = threads[u].txn.writes[k]

\* both transactions are done after the replace_docs transaction committed
\* a document under a key that the read_modify_write had read and updated
C21_Witness ==
    /\ RaceDone
    /\ RacedWith(1, 2)
    /\ threads[1].txn.writes # <<>>
    /\ \E k \in DOMAIN threads[1].txn.writes \cap DOMAIN threads[2].txn.writes :
          /\ threads[1].txn.writes[k] # threads[2].txn.writes[k]
          /\ store[k] # before[k]

(***************************************************************************)
(* TEST(db, basic) of test.cpp: BasicSpec.  The session of the test and    *)
(* the engine under it are not part of the sources; they are modelled from *)
(* the specification of the engine: a write stores an entry with its       *)
(* presence bit, a read returns the presence and the bytes of every key.   *)
(* The steps of the test (round_trip, clear, the scan, erase) run in any   *)
(* order over any of the keys; exported holds what the step reads back.    *)
(***************************************************************************)
basic_keys_count == 3
BasicKeys == 34..(34 + basic_keys_count - 1)

\* the length the engine reports for a key without a value
ukv_val_len_missing_k == <<>>

RECURSIVE Ascending(_)
\* the keys of a set in ascending order
Ascending(S) ==
    IF S = {} THEN <<>>
    ELSE Bind(CHOOSE a \in S : \A b \in S : a <= b, LAMBDA least :
              <<least>> \o Ascending(S \ {least}))

\* session[keys]: any of the keys, in ascending order as the test lists them
BasicRefs == {Ascending(S) : S \in (SUBSET BasicKeys) \ {{}}}

\* vals: the key itself, or the key plus 100, as a std::uint64_t
BasicValues(ks) ==
    {[i \in 1..Len(ks) |-> Present(write_scalar(ks[i] + add, 8))] : add \in {0, 100}}

\* ref.clear() taken to remove the keys
clear_values_absent(ks) == [i \in 1..Len(ks) |-> Missing]

\* ref.clear(): every key gets an empty value
clear_values(ks) == [i \in 1..Len(ks) |-> Present(<<>>)]

\* ref.erase(): every key loses its value
erase_values(ks) == [i \in 1..Len(ks) |-> Missing]

\* session[key].contains() and session[key].lengths()
kv_contains(st, ks) == [i \in 1..Len(ks) |-> st[ks[i]].present]
kv_lengths(st, ks) ==
    [i \in 1..Len(ks) |-> IF st[ks[i]].present THEN <<Len(st[ks[i]].bytes)>>
                          ELSE ukv_val_len_missing_k]

\* session.keys(): the keys that have a value, ascending
kv_scan(st) == Ascending({k \in DOMAIN st : st[k].present})

\* what the test reads after a step
Observed(st, ks) ==
    [retrieved |-> ukv_read(st, ks), contains |-> kv_contains(st, ks),
     lengths |-> kv_lengths(st, ks), scan |-> kv_scan(st)]

BasicInit ==
    /\ impl = "modality"
    /\ store = [k \in BasicKeys |-> Missing]
    /\ before = store
    /\ pc = "idle"
    /\ call = NoCall
    /\ kvLog = <<>>
    /\ tape = <<>>
    /\ error = NoError
    /\ parses = 0
    /\ exported = NoExport
    /\ written = [k \in BasicKeys |-> NotWritten]
    /\ cursor = NoCursor
    /\ NoTest

\* a step of the test: the write of the step, then its reads
BasicStep(op, ks, values) ==
    /\ before' = store
    /\ store' = ukv_write(store, ks, values)
    /\ call' = Call(op, ks, <<>>, "none", values)
    /\ kvLog' = <<WriteRequest(ks, values), ReadRequest(ks)>>
    /\ exported' = Observed(ukv_write(store, ks, values), ks)
    /\ UNCHANGED <<impl, pc, tape, error, parses, written, cursor, testvars>>

\* round_trip(ref, values): ref.set(values), then ref.get()
round_trip == \E ks \in BasicRefs : \E values \in BasicValues(ks) : BasicStep("set", ks, values)

\* ref.clear(), then contains and lengths of every key and the scan
BasicClear == \E ks \in BasicRefs : BasicStep("clear", ks, clear_values(ks))

\* ref.erase(), then contains and lengths of every key
BasicErase == \E ks \in BasicRefs : BasicStep("erase", ks, erase_values(ks))

BasicNext == round_trip \/ BasicClear \/ BasicErase

BasicSpec == BasicInit /\ [][BasicNext]_vars

(***************************************************************************)
(* Properties of BasicSpec.                                                *)
(***************************************************************************)
KeysOfCall == {call.ids[i] : i \in 1..Len(call.ids)}
PresentBefore == {k \in DOMAIN before : before[k].present}

\* the keys of the step had all been written and not erased since
PreviouslyWritten == KeysOfCall \subseteq PresentBefore

MaxHandleBatch == 1

NullDatabase == "nullptr"
OpenDatabase == "db"

Uninitialized == "DataBase is uninitialized"
DataBaseIsNull == "DataBase is NULL!"
EngineRefusal == "UnderlyingKv: uninitialized"

\* the request as the engine answers it for this handle
ukv_with_database(db, r, st) ==
    IF db = NullDatabase
    THEN Result(st, r.kvLog, <<>>, EngineRefusal, 0)
    ELSE r

\* ukv_docs_write with c.db
docs_write_with_database(db, st, ids, fields, contents, format, asserts) ==
    IF ~has_fields(fields) /\ format = internal_format_k
    THEN ukv_with_database(db, docs_write(st, ids, fields, contents, format, asserts), st)
    ELSE IF db = NullDatabase THEN Result(st, <<>>, <<>>, Uninitialized, 0)
    ELSE docs_write(st, ids, fields, contents, format, asserts)

\* ukv_docs_read with c.db
docs_read_with_database(db, st, ids, fields, format) ==
    IF ~has_fields(fields) /\ format = internal_format_k
    THEN ukv_with_database(db, docs_read(st, ids, fields, format), st)
    ELSE IF db = NullDatabase THEN Result(st, <<>>, <<>>, Uninitialized, 0)
    ELSE docs_read(st, ids, fields, format)

\* ukv_docs_write of logic_docs.cpp with c_db
logic_docs_write_with_database(db, st, ids, fields, contents, format) ==
    IF ~has_fields(fields) /\ format = internal_format_k
    THEN ukv_with_database(db, logic_docs_write(st, ids, fields, contents, format), st)
    ELSE IF db = NullDatabase THEN Result(st, <<>>, <<>>, DataBaseIsNull, 0)
    ELSE logic_docs_write(st, ids, fields, contents, format)

\* the call record with the handle that was passed
CallWith(db, op, ids, fields, format, contents) ==
    [op |-> op, impl |-> impl, ids |-> ids, fields |-> fields, format |-> format,
     contents |-> contents, db |-> db]

HandleFields(k) == {<<>>, [i \in 1..k |-> FieldA]}

HandleWrite ==
    \E db \in {NullDatabase, OpenDatabase}, ids \in Batches(MaxHandleBatch, WrittenIds),
       format \in WriteFormats :
        \E fields \in HandleFields(Len(ids)), contents \in Contents(Len(ids), format) :
            /\ pc = "idle"
            /\ impl = "modality"
            /\ Returns(docs_write_with_database(db, store, ids, fields, contents, format, TRUE),
                       CallWith(db, "write", ids, fields, format, contents),
                       IF ~has_fields(fields)
                          /\ format \notin {"json_patch", "json_merge_patch"}
                       THEN "whole" ELSE "part")

HandleRead ==
    \E db \in {NullDatabase, OpenDatabase}, ids \in Batches(MaxHandleBatch, WrittenIds),
       format \in ReadFormats :
        \E fields \in HandleFields(Len(ids)) :
            /\ pc = "idle"
            /\ impl = "modality"
            /\ Returns(docs_read_with_database(db, store, ids, fields, format),
                       CallWith(db, "read", ids, fields, format, <<>>), "no write")

HandleLogicWrite ==
    \E db \in {NullDatabase, OpenDatabase}, ids \in Batches(MaxHandleBatch, WrittenIds),
       format \in ReadFormats :
        \E fields \in HandleFields(Len(ids)), contents \in Contents(Len(ids), format) :
            /\ pc = "idle"
            /\ impl = "logic"
            /\ Returns(logic_docs_write_with_database(db, store, ids, fields, contents, format),
                       CallWith(db, "write", ids, fields, format, contents), "whole")

HandleNext == HandleWrite \/ HandleRead \/ HandleLogicWrite \/ Release

HandleSpec == Init /\ [][HandleNext]_vars

(***************************************************************************)
(* Properties of HandleSpec.                                               *)
(***************************************************************************)
NullHandleCall == pc = "done" /\ call.db = NullDatabase

\* C23: a docs_write or docs_read that was passed a null database handle
\* returns the Uninitialized error of the document layer and has issued no
\* KV read and no KV write, in every format, with and without fields.
C23_NullHandleRefusedFirst ==
    NullHandleCall => /\ error \in {Uninitialized, DataBaseIsNull}
                      /\ kvLog = <<>>
                      /\ store = before

\* the same for the calls that name fields or a format other than the
\* internal one; the other calls reach the engine with the null handle
NullHandleRefusedUnlessForwarded ==
    (NullHandleCall /\ (has_fields(call.fields) \/ call.format # internal_format_k))
    => /\ error \in {Uninitialized, DataBaseIsNull}
       /\ kvLog = <<>>
       /\ store = before

\* a call with a null handle never changes the store
NullHandleWritesNothing == NullHandleCall => store = before

(***************************************************************************)
(* dump_any followed by parse_any: CodecSpec.  A document of the bounded   *)
(* set is dumped in a format as serializing_tape_ref_t::push_back does,    *)
(* then the bytes are parsed in the same format.  Formats of the model:    *)
(* JSON text and MessagePack.                                              *)
(***************************************************************************)
MaxCodecMembers == 2

CodecLeaves ==
    {Null, Bool(TRUE), Bool(FALSE), UInt(0), UInt(7), UInt(200), SInt(-3), SInt(-100),
     SInt(5), Str(<<>>), Str(<<120>>), Bin(<<>>), Bin(<<5, 0>>)}

CodecNames == {<<97>>, <<120>>, <<98, 99>>}

CodecArrays == {Arr(a) : a \in UNION {[1..n -> CodecLeaves] : n \in 0..MaxCodecMembers}}

CodecObjects ==
    {Obj(m) : m \in UNION {[S -> CodecLeaves \cup {Arr(<<UInt(7)>>), Obj(EmptyMap)}] :
                             S \in {T \in SUBSET CodecNames :
                                       Cardinality(T) <= MaxCodecMembers}}}

CodecDocuments == CodecLeaves \cup CodecArrays \cup CodecObjects

CodecFormats == {"json", "msgpack"}

RECURSIVE json_equal(_, _)
\* json_t::operator== : a number_integer and a number_unsigned are equal
\* when their values are; every other pair of types is unequal
json_equal(lhs, rhs) ==
    IF lhs.t \in {"int", "uint"} /\ rhs.t \in {"int", "uint"}
    THEN (IF lhs.t = "int" THEN lhs.i ELSE lhs.u) = (IF rhs.t = "int" THEN rhs.i ELSE rhs.u)
    ELSE IF lhs.t # rhs.t THEN FALSE
    ELSE IF lhs.t = "arr"
    THEN /\ Len(lhs.a) = Len(rhs.a)
         /\ \A i \in 1..Len(lhs.a) : json_equal(lhs.a[i], rhs.a[i])
    ELSE IF lhs.t = "obj"
    THEN /\ DOMAIN lhs.m = DOMAIN rhs.m
         /\ \A n \in DOMAIN lhs.m : json_equal(lhs.m[n], rhs.m[n])
    ELSE lhs = rhs

CodecInit ==
    /\ impl = "modality"
    /\ store = [id \in DocumentIds |-> Missing]
    /\ before = store
    /\ pc = "idle"
    /\ call = NoCall
    /\ kvLog = <<>>
    /\ tape = <<>>
    /\ error = NoError
    /\ parses = 0
    /\ exported = NoExport
    /\ written = [id \in DocumentIds |-> NotWritten]
    /\ cursor = NoCursor
    /\ NoTest

\* serializing_tape.push_back(doc, format): dump_any onto the tape
CodecDump ==
    /\ pc = "idle"
    /\ \E doc \in CodecDocuments, format \in CodecFormats :
        /\ call' = [op |-> "dump", impl |-> impl, ids |-> <<>>, fields |-> <<>>,
                    format |-> format, contents |-> <<>>, doc |-> doc]
        /\ tape' = <<push_back(doc, format)>>
        /\ error' = dump_error(doc, format)
    /\ pc' = "dumped"
    /\ UNCHANGED <<impl, store, before, kvLog, parses, exported, written, cursor, testvars>>

\* parse_any of the bytes of the tape, in the format they were dumped in
CodecParse ==
    /\ pc = "dumped"
    /\ exported' = parse_any(Blob(tape[1]), call.format)
    /\ parses' = 1
    /\ pc' = "done"
    /\ UNCHANGED <<impl, store, before, call, kvLog, tape, error, written, cursor, testvars>>

CodecNext == CodecDump \/ CodecParse \/ Release

CodecSpec == CodecInit /\ [][CodecNext]_vars

(***************************************************************************)
(* Properties of CodecSpec.                                                *)
(***************************************************************************)
RoundTripDone == pc = "done" /\ call.op = "dump"

RECURSIVE HoldsBinary(_)
\* the document is, or holds somewhere, a binary blob
HoldsBinary(json) ==
    \/ json.t = "bin"
    \/ json.t = "arr" /\ \E i \in 1..Len(json.a) : HoldsBinary(json.a[i])
    \/ json.t = "obj" /\ \E n \in DOMAIN json.m : HoldsBinary(json.m[n])

\* C24: parsing the bytes that dump_any wrote for a document in a format
\* yields a document equal to it, for every document and every format.
C24_RoundTrip == RoundTripDone => json_equal(exported, call.doc)

\* the same for MessagePack, and for JSON text when the document holds no
\* binary blob
RoundTripUnlessBinaryAsText ==
    (RoundTripDone /\ (call.format = "msgpack" \/ ~HoldsBinary(call.doc)))
    => json_equal(exported, call.doc)

(***************************************************************************)
(* Properties of Spec: the parses of a batched call.                       *)
(***************************************************************************)
\* a docs_read of the modality that parses documents, or a read_modify_write
ParsingCall ==
    /\ pc = "done"
    /\ call.impl = "modality"
    /\ (call.op = "read" /\ ~ShortCircuit) \/ ReadModifyWriteDone

\* the runs of parse_any on stored bytes: those of the call less the one per
\* payload of a read_modify_write
ParsesOfStored == IF call.op = "write" THEN parses - Len(call.ids) ELSE parses

\* C25: in a docs_read or a read_modify_write of the modality, the stored
\* bytes of every distinct (collection, key) are read and parsed once,
\* however many tuples address the key, and the tuples of one key are served
\* from that one parsed document: equal tuples of a read get equal outputs.
C25_ParsedOncePerKey ==
    ParsingCall
    => /\ \A r \in Requests("read") :
             /\ Len(kvLog[r].keys) = Cardinality(Distinct(kvLog[r].keys))
             /\ Distinct(kvLog[r].keys) = Distinct(call.ids)
       /\ error = NoError => ParsesOfStored = Cardinality(Distinct(call.ids))
       /\ (call.op = "read" /\ error = NoError)
          => \A i, j \in 1..Len(call.ids) :
                (call.ids[i] = call.ids[j]
                 /\ FieldOf(call.fields, i) = FieldOf(call.fields, j))
                => tape[i] = tape[j]

\* a read of four tuples that address one stored document by two fields,
\* parsed once
C25_Witness ==
    /\ ParsingCall
    /\ call.op = "read"
    /\ error = NoError
    /\ Len(call.ids) = MaxBatch
    /\ Cardinality(Distinct(call.ids)) = 1
    /\ store[call.ids[1]].present
    /\ parses = 1
    /\ \E i, j \in 1..Len(call.ids) : tape[i] # tape[j]

(***************************************************************************)
(* Properties of GatherSpec: binary sources of scalar columns.             *)
(***************************************************************************)
\* the finished cells of scalar columns whose source is a binary blob
BinaryScalarCells ==
    {c \in CellsDone : call.types[c[2]] # "str" /\ CellSource(c).t = "bin"}

FitsWidth(c) == Len(CellSource(c).x) = Width(call.types[c[2]]) \div 8

\* the cell after a binary source of another length than the target
CollidedBinary(c) ==
    /\ ~CellAt(c).bits.validities
    /\ call.wants_collisions => CellAt(c).bits.collisions

\* C26: a scalar column whose source is a binary blob of exactly the width
\* of the target holds the bytes of the blob, with the validity bit set and
\* the conversion bit clear; after a blob of any other length the collision
\* bit is set and the validity bit is clear.
C26_BinaryCopiedUnconverted ==
    \A c \in BinaryScalarCells :
        IF FitsWidth(c)
        THEN /\ CellAt(c).scalar = CellSource(c).x
             /\ CellAt(c).bits.validities
             /\ call.wants_conversions => ~CellAt(c).bits.conversions
        ELSE CollidedBinary(c)

\* the same with the conversion bit set after a blob of the target's width
BinaryCopiedConverted ==
    \A c \in BinaryScalarCells :
        IF FitsWidth(c)
        THEN /\ CellAt(c).scalar = CellSource(c).x
             /\ CellAt(c).bits.validities
             /\ call.wants_conversions => CellAt(c).bits.conversions
        ELSE CollidedBinary(c)

(***************************************************************************)
(* Properties of Spec: the tape of read_modify_write and its KV write.     *)
(***************************************************************************)
\* the j-th entry of the tape is the push of the j-th task, which works on
\* the document of the j-th input tuple: the write gives every key the
\* entry pushed for it
TapeAlignedWith(w) ==
    /\ Len(tape) = Len(w.keys)
    /\ \A j \in 1..Len(w.keys) :
          /\ w.vals[j] = tape[j]
          /\ call.ids[j] = w.keys[j]

\* C27: in the KV write of a read_modify_write the j-th value of the tape is
\* the one computed for the j-th key of the write, also when the input
\* addresses a (collection, key) more than once; the tape has as many
\* entries as the write has keys, and no key receives a value computed for
\* another key.
C27_TapeAlignedWithWrite ==
    (ReadModifyWriteDone /\ error = NoError)
    => \A w \in Requests("write") : TapeAlignedWith(kvLog[w])

\* the same for input that is ascending without duplicates
AscendingInputAligned ==
    (ReadModifyWriteDone /\ error = NoError /\ all_ascending(call.ids)
       /\ \A i \in 1..(Len(call.ids) - 1) : call.ids[i][1] <= call.ids[i + 1][1])
    => \A w \in Requests("write") : TapeAlignedWith(kvLog[w])

(***************************************************************************)
(* Properties of GatherSpec: the validity bitmap and the optional bitmaps. *)
(***************************************************************************)
ValidityOf(out) ==
    [d \in 1..Len(out.rows) |->
        [f \in 1..Len(out.rows[d]) |-> out.rows[d][f].bits.validities]]

\* the columns of the call
CallColumns == [f \in 1..Len(call.fields) |-> Column(call.fields[f], call.types[f])]

\* C28: the validity bitmap of a returned docs_gather is the one the same
\* gather yields with any other choice of the optional conversion and
\* collision bitmaps: a bitmap that is not requested is the validity bitmap
\* itself, and the validity bit of a cell is stored after the other two.
C28_ValidityWithoutOptionalBitmaps ==
    GatherReturned
    => \A wants_conversions \in BOOLEAN, wants_collisions \in BOOLEAN :
          ValidityOf(exported)
              = ValidityOf(docs_gather(store, call.ids, CallColumns,
                                       wants_conversions, wants_collisions).exported)

\* a gather without the optional bitmaps over a cell that collides (its
\* collision store went to the validity bit) and a cell that was converted
C28_Witness ==
    /\ GatherReturned
    /\ ~call.wants_conversions
    /\ ~call.wants_collisions
    /\ \E c \in CellsDone : CellSource(c).t = "obj" /\ ~CellAt(c).bits.validities
    /\ \E c \in CellsDone : CellSource(c).t = "str" /\ call.types[c[2]] = "i32"
                               /\ CellAt(c).bits.validities

(***************************************************************************)
(* Properties of GatherSpec: the cells of a string column and the tape of  *)
(* joined strings.                                                         *)
(***************************************************************************)
\* the finished cells of string and binary columns
StringCells == {c \in CellsDone : call.types[c[2]] = "str"}

\* the loop takes the documents in turn and, within one, the fields
ExportedBefore(c, d) == c[1] < d[1] \/ (c[1] = d[1] /\ c[2] < d[2])

HoldsRange(cell) == cell.off # <<>> /\ cell.len # <<>>
EndOf(cell) == cell.off[1] + cell.len[1]

\* C29: every finished cell of a string or binary column whose validity bit
\* is set has an offset and a length that lie inside the tape of joined
\* strings; the offsets of valid cells do not decrease in the order of the
\* export and their ranges do not overlap; a cell that is not valid has the
\* missing length as its offset and as its length.
C29_StringRangesInsideTape ==
    \A c \in StringCells :
        IF CellAt(c).bits.validities
        THEN /\ HoldsRange(CellAt(c))
             /\ EndOf(CellAt(c)) <= Len(exported.string_tape)
             /\ \A d \in StringCells :
                   (CellAt(d).bits.validities /\ ExportedBefore(c, d))
                   => /\ HoldsRange(CellAt(d))
                      /\ CellAt(c).off[1] <= CellAt(d).off[1]
                      /\ EndOf(CellAt(c)) <= CellAt(d).off[1]
        ELSE /\ CellAt(c).off = ukv_val_len_missing_k
             /\ CellAt(c).len = ukv_val_len_missing_k

(***************************************************************************)
(* ukv_docs_gather over numbers that do not fit: FloatSpec follows the     *)
(* gather of GatherSpec over documents whose member x is a float or an     *)
(* integer beyond eight bits.                                              *)
(***************************************************************************)
MsgpackXFloat3e9 == <<129, 161, 120, 202, 79, 50, 208, 94>>    \* {"x":3e9}
MsgpackXFloat2p80 == <<129, 161, 120, 202, 103, 128, 0, 0>>    \* {"x":2^80}
MsgpackXFloat300 == <<129, 161, 120, 202, 67, 150, 0, 0>>      \* {"x":300.0}
MsgpackXFloatMinus2p5 == <<129, 161, 120, 202, 192, 32, 0, 0>> \* {"x":-2.5}
MsgpackX200 == <<129, 161, 120, 204, 200>>                     \* {"x":200}
MsgpackXMinus100 == <<129, 161, 120, 208, 156>>                \* {"x":-100}

FloatPayloads ==
    <<{MsgpackXFloat3e9, MsgpackX200}, {MsgpackXFloat2p80, MsgpackXMinus100},
      {MsgpackXFloat300, MsgpackXStrNo}, {MsgpackXObj, MsgpackXFloatMinus2p5}>>

FloatSpecColumns ==
    {<<Column(FieldPointerX, "i32")>>, <<Column(FieldPointerX, "i8")>>,
     <<Column(FieldPointerX, "u8")>>, <<Column(FieldPointerX, "str")>>}

FloatStore ==
    \E i \in 1..Len(GatherKeys) : \E payload \in FloatPayloads[i] :
        ukv_docs_write(<<GatherKeys[i]>>, <<>>, <<payload>>, internal_format_k, TRUE)

FloatBegin ==
    \E columns \in FloatSpecColumns :
        \E wants_conversions \in BOOLEAN, wants_collisions \in BOOLEAN, garbage \in BOOLEAN :
            gather_begin(GatherKeys, columns, wants_conversions, wants_collisions, garbage)

FloatNext == FloatStore \/ FloatBegin \/ GatherWrite \/ GatherReturn \/ Release

FloatSpec == GatherInit /\ [][FloatNext]_vars

(***************************************************************************)
(* Properties of FloatSpec.                                                *)
(***************************************************************************)
\* the finished cells of integer columns whose source is a number
NumberCells ==
    {c \in CellsDone : /\ call.types[c[2]] \in {"i8", "u8", "i16", "i32"}
                       /\ CellSource(c).t \in {"int", "uint", "float"}}

\* the value of the source modulo 2^width, as the type holds it
ReducedModulo(type, value) ==
    CASE value.t = "int" -> static_cast(type, value.i)
      [] value.t = "uint" -> static_cast(type, value.u)
      [] value.t = "float" -> Wrapped(type, value)

\* C30: a cell of an integer column whose source is an integer, an unsigned
\* or a float holds the value of the source reduced modulo 2^width, whether
\* or not the value fits the type, with the validity bit set and the
\* collision bit clear: a number that does not fit is never a collision.
C30_NumbersReducedModulo ==
    \A c \in NumberCells :
        /\ CellAt(c).scalar = <<ReducedModulo(call.types[c[2]], CellSource(c))>>
        /\ CellAt(c).bits.validities
        /\ call.wants_collisions => ~CellAt(c).bits.collisions

\* the same for the sources that are integers; a float is valid and no
\* collision, whatever its scalar
IntegersReducedModulo ==
    \A c \in NumberCells :
        /\ CellSource(c).t # "float"
           => CellAt(c).scalar = <<ReducedModulo(call.types[c[2]], CellSource(c))>>
        /\ CellAt(c).scalar # <<>>
        /\ CellAt(c).bits.validities
        /\ call.wants_collisions => ~CellAt(c).bits.collisions

\* an unsigned 200 and a signed -100 are in an i8 and a u8 column
IntegersReducedReached ==
    /\ GatherReturned
    /\ \E c \in NumberCells : /\ call.types[c[2]] = "i8" /\ CellSource(c) = UInt(200)
                              /\ CellAt(c).scalar = <<-56>>

\* the ranges of C29, but for the offset of a float whose text does not
\* fit the buffer of print_scalar
StringRangesUnlessUnprinted ==
    \A c \in StringCells :
        IF CellAt(c).bits.validities
        THEN /\ HoldsRange(CellAt(c))
             /\ EndOf(CellAt(c)) <= Len(exported.string_tape)
             /\ \A d \in StringCells :
                   (CellAt(d).bits.validities /\ ExportedBefore(c, d))
                   => /\ HoldsRange(CellAt(d))
                      /\ CellAt(c).off[1] <= CellAt(d).off[1]
                      /\ EndOf(CellAt(c)) <= CellAt(d).off[1]
        ELSE /\ CellAt(c).len = ukv_val_len_missing_k
             /\ IF CellSource(c).t = "float"
                THEN CellAt(c).off # ukv_val_len_missing_k
                ELSE CellAt(c).off = ukv_val_len_missing_k
====
